---- MODULE Spec2Model ----
(***************************************************************************)
(* The timed-event scheduler of bot/cogs/countdown.py (class Countdown):   *)
(* the entry registry (_active), its mirror on disk (countdowns.json), the *)
(* per-entry timer tasks (_tasks), the boundary-wait tasks (_wait_tasks),  *)
(* the interval groups (_interval_groups) and the chat platform's threads. *)
(*                                                                         *)
(* The program runs on one asyncio event loop: code between two awaits is  *)
(* one atomic step, and every action below is one such step.  A step that  *)
(* runs an "async with self._lock" block needs the lock free (the variable *)
(* lock) and has left the block when it ends.                              *)
(***************************************************************************)
EXTENDS Integers, Sequences, FiniteSets, TLC

\* ------------------------------------------------------------------ bounds
\* Entries created in one run (each gets the next uid).
MaxEntries == 2
\* Ids the generator draws from are 1..NumIds (ID_CHARSET^ID_LENGTH in the code).
NumIds == 2
\* The longest duration text that is parsed.
MaxLen == 5
\* Deliveries of one completion message after which the process no longer dies.
MaxDeliveries == 2

\* ------------------------------------------------------- program constants
MAX_DURATION_SECONDS == 86400
GRACE_SECONDS == 180
DEBOUNCE_SECONDS == 5
MAX_INTERVAL_MINUTES == 30
\* Optional[...] = None for team_role_id; thread_id None; thread_id "pending".
NoTeam == 0
NoStart == -1
ParseError == -1
ThreadNone == 0
\* asyncio.Lock() that no task holds.
NoHolder == 0
ThreadPending == -1

\* --------------------------------------------------------- input domains
\* Instants of the wall clock at which the model lets something happen.
TimePoints == {0, 4, 60, 184, 310}
IDs == 1..NumIds
\* Some specifications below let one more entry be created than Spec does.
UIDs == 1..(MaxEntries + 1)
\* Team roles (whitelisted) with the guild each belongs to and its members.
Teams == {11, 12}
Guilds == {1}
TeamGuild(team) == 1
TeamMembers(team) == IF team = 11 THEN {1} ELSE {2}
\* Results of _parse_duration_seconds offered to the handlers.
Durations == {240}
Intervals == {0, 1}

VARIABLES
  now,       \* time.time() / datetime.now() / time.monotonic(): the clock, in seconds
  ent,       \* the CountdownEntry objects made so far, by uid (the object's identity)
  active,    \* self._active: id -> entry
  store,     \* countdowns.json as last written by _persist: id -> entry
  debounce,  \* self._travel_debounce: <<guild, team>> -> time of the last accepted travel
  groups,    \* self._interval_groups: <<guild, start, end>> -> group
  tasks,     \* self._tasks: id -> task (a task is named by the uid of its entry)
  tpc,       \* position of each _run_countdown task
  tcancel,   \* task.cancel() was called and its CancelledError is not yet delivered
  trem,      \* the task's _cleanup_interval_group: its thread, the members still to remove
  wtasks,    \* self._wait_tasks: id -> wait task (named by the uid of its entry)
  wpc,       \* position of each travel handler / _send_travel_start_after_wait task
  wcancel,   \* wait_task.cancel() was called and not yet delivered
  wrem,      \* members _ensure_interval_thread has still to add
  wthread,   \* the thread a wait task created (its local "thread")
  cpc,       \* position of the cancel handler that removed an entry (its cleanup)
  crem,      \* that handler's _cleanup_interval_group: its thread, the members still to remove
  threads,   \* the platform's private threads, by thread id
  perr,      \* some call to the platform about a thread has failed so far
  unlocked,  \* the fields of the groups written outside `async with self._lock` so far
  lock,      \* self._lock: the task that holds it while it is suspended, if any
  fired,     \* calls of _send_completion, per entry
  notified,  \* completion messages the platform delivered, per entry
  delivered, \* completion messages the platform delivered so far, per stored entry
  ev,        \* the request just handled: the operation, its argument, the entry, the reply
  rec        \* _load_existing_countdowns: its position and its locals

timerVars == <<tasks, tpc, tcancel, trem>>
waitVars == <<wtasks, wpc, wcancel, wrem, wthread>>
cancelVars == <<cpc, crem>>
regVars == <<active, store>>
noteVars == <<fired, notified, delivered>>
vars == <<now, ent, active, store, debounce, groups, tasks, tpc, tcancel, trem,
          wtasks, wpc, wcancel, wrem, wthread, cpc, crem, threads, perr, unlocked, lock,
          fired, notified, delivered, ev, rec>>

\* ------------------------------------------------------------- dict helpers
Put(f, k, v) == [x \in DOMAIN f \cup {k} |-> IF x = k THEN v ELSE f[x]]
Pop(f, k) == [x \in DOMAIN f \ {k} |-> f[x]]
Get(f, k, default) == IF k \in DOMAIN f THEN f[k] ELSE default
Empty == [x \in {} |-> 0]

\* ev holds the reply to the request handled in the step just taken, and Idle
\* after a step of a task, of a callback or of the clock (but a timer that
\* finds its entry gone says so).
Event(op, arg, uid, out) == [op |-> op, arg |-> arg, uid |-> uid, out |-> out]
Idle == Event("none", 0, 0, "none")
\* The reply to a cancel_countdown with an id, with what _has_admin_role said
\* of the caller.
CancelEvent(id, uid, out, admin) ==
  [op |-> "cancel", arg |-> id, uid |-> uid, out |-> out, admin |-> admin]
\* What a countdown or a travel command was called with: both notify targets
\* given, the caller's whitelisted roles, the parsed duration, the interval.
Request(both, matches, d, iv) == [both |-> both, matches |-> matches, d |-> d, iv |-> iv]
\* The reply to a countdown or a travel command.
CreateEvent(op, id, uid, out, req) ==
  [op |-> op, arg |-> id, uid |-> uid, out |-> out, req |-> req]

\* ------------------------------------------------------------ pure helpers
\* A _seconds_until_next_interval_boundary that waits a whole interval when
\* called on a boundary.
SecondsUntilBoundaryAfter(t, interval_minutes) ==
  IF interval_minutes <= 0 THEN 0
  ELSE LET interval_seconds == interval_minutes * 60
           hour == (t % 86400) \div 3600
           minute == (t % 3600) \div 60
           second == t % 60
           seconds_today == hour * 3600 + minute * 60 + second
       IN interval_seconds - (seconds_today % interval_seconds)
\* _seconds_until_next_interval_boundary(now, interval_minutes), with the
\* datetime's hour, minute and second taken from the epoch seconds t.
SecondsUntilNextIntervalBoundary(t, interval_minutes) ==
  IF interval_minutes <= 0 THEN 0
  ELSE LET interval_seconds == interval_minutes * 60
           hour == (t % 86400) \div 3600
           minute == (t % 3600) \div 60
           second == t % 60
           seconds_today == hour * 3600 + minute * 60 + second
           remainder == seconds_today % interval_seconds
       IN IF remainder = 0 THEN 0 ELSE interval_seconds - remainder

\* A duration as it is typed: a sequence of characters, here digits, the unit
\* letters, an upper-case unit letter, a space and a letter that is no unit.
Digits == {"0", "1", "3", "4", "5"}
Units == {"h", "m", "s"}
Chars == Digits \cup Units \cup {"H", " ", "x"}
\* int() of one digit, str.lower() of one character.
DigitValue(c) == CASE c = "0" -> 0 [] c = "1" -> 1 [] c = "3" -> 3 [] c = "4" -> 4 [] c = "5" -> 5
Lower(c) == IF c = "H" THEN "h" ELSE c
NotSpace(c) == c # " "
\* duration.replace(" ", "").lower()
Cleaned(duration) ==
  LET kept == SelectSeq(duration, NotSpace)
  IN [i \in 1..Len(kept) |-> Lower(kept[i])]

\* int(match.group(1)): the value of the digits c[i..j].
RECURSIVE IntOf(_, _, _)
IntOf(c, i, j) == IF j < i THEN 0 ELSE IntOf(c, i, j - 1) * 10 + DigitValue(c[j])
\* The pattern (\d+)([hms]) tried at index i: the index of the unit letter
\* that ends the match, or 0 when there is no match at i.  \d+ takes every
\* digit that follows; with fewer digits the next character is a digit too.
MatchEnd(c, i) ==
  IF i > Len(c) \/ c[i] \notin Digits THEN 0
  ELSE LET stop == CHOOSE j \in i..Len(c) :
                     /\ \A k \in i..j : c[k] \in Digits
                     /\ (j = Len(c) \/ c[j + 1] \notin Digits)
       IN IF stop < Len(c) /\ c[stop + 1] \in Units THEN stop + 1 ELSE 0
\* finditer: the start of the first match at or after index from, or 0.
NextMatch(c, from) ==
  IF \E i \in from..Len(c) : MatchEnd(c, i) # 0
  THEN CHOOSE i \in from..Len(c) :
         MatchEnd(c, i) # 0 /\ \A k \in from..(i - 1) : MatchEnd(c, k) = 0
  ELSE 0
UnitSeconds(unit) == IF unit = "h" THEN 3600 ELSE IF unit = "m" THEN 60 ELSE 1

\* The loop that takes every match wherever it starts.
RECURSIVE ScanAnywhere(_, _, _)
ScanAnywhere(c, position, total_seconds) ==
  LET start == NextMatch(c, position + 1)
      end == MatchEnd(c, start)
  IN IF start = 0
     THEN IF position # Len(c) \/ total_seconds = 0 THEN ParseError ELSE total_seconds
     ELSE ScanAnywhere(c, end, total_seconds
                                 + IntOf(c, start, end - 1) * UnitSeconds(c[end]))
\* The loop of _parse_duration_seconds over the matches, from the characters
\* consumed so far (position) and the sum so far, and the test after it.
RECURSIVE Scan(_, _, _)
Scan(c, position, total_seconds) ==
  LET start == NextMatch(c, position + 1)
      end == MatchEnd(c, start)
  IN IF start = 0
     THEN IF position # Len(c) \/ total_seconds = 0 THEN ParseError ELSE total_seconds
     ELSE IF start # position + 1 THEN ParseError
     ELSE Scan(c, end, total_seconds + IntOf(c, start, end - 1) * UnitSeconds(c[end]))

\* _parse_duration_seconds: the seconds, or ParseError for a ValueError.
ParseDurationSeconds(duration) == Scan(Cleaned(duration), 0, 0)

\* CountdownEntry.to_dict: the fields of the entry, without the object's identity.
ToDict(e) == [id |-> e.id, guild |-> e.guild, created |-> e.created, start |-> e.start,
              end |-> e.end, kind |-> e.kind, team |-> e.team]
\* What identifies an entry in the file and in its completion message: its
\* id ("ID: ..." in the footer), created_ts and end_ts.
RecordKey(e) == <<e.id, e.created, e.end>>
\* The platform delivered one more completion message of the entry.
Deliver(dl, e) == Put(dl, RecordKey(e), Get(dl, RecordKey(e), 0) + 1)
\* A from_dict that starts the requested duration again at the restart.
FromDictRestarted(raw, uid) ==
  [uid |-> uid, id |-> raw.id, guild |-> raw.guild, created |-> raw.created,
   start |-> IF raw.start = NoStart THEN raw.created ELSE raw.start,
   end |-> rec.now + (raw.end - raw.created), kind |-> raw.kind, team |-> raw.team]
\* CountdownEntry.from_dict, then the defaults _load_existing_countdowns fills
\* in: a record without start_ts starts when it was created.
FromDict(raw, uid) ==
  [uid |-> uid, id |-> raw.id, guild |-> raw.guild, created |-> raw.created,
   start |-> IF raw.start = NoStart THEN raw.created ELSE raw.start,
   end |-> raw.end, kind |-> raw.kind, team |-> raw.team]

PersistNothing(a) == [x \in {} |-> 0]
\* _persist: the file is rewritten with the to_dict of every entry of _active.
Persist(a) == [id \in DOMAIN a |-> ToDict(a[id])]

\* _generate_unique_id returns a candidate that is a key neither of _active
\* nor of _tasks.
IsFree(id) == id \notin (DOMAIN active \cup DOMAIN tasks)

KeyOf(e) == <<e.guild, e.start, e.end>>

NoCleanup == [thread |-> ThreadNone, rem |-> {}]

\* _load_existing_countdowns at its end, having read the file `stored` at time t.
Recovered(stored, t) ==
  [pc |-> "done", now |-> t, stored |-> stored, todo |-> {}, sending |-> 0,
   act |-> Empty, sched |-> <<>>, writes |-> 1]
\* ... and at its start.
Recovering(stored, t) ==
  [pc |-> "load", now |-> t, stored |-> stored, todo |-> DOMAIN stored, sending |-> 0,
   act |-> Empty, sched |-> <<>>, writes |-> 0]

NewGroup == [teams |-> {}, entries |-> {}, thread |-> ThreadNone]

\* group["member_ids"]: it is filled only by the task that set thread_id to the
\* thread it created, so the set lives with that thread.
GroupMembers(g) == IF g.thread > 0 THEN threads[g.thread].mids ELSE {}

\* _register_interval_group
RegisterIntervalGroup(gs, e) ==
  IF e.start = NoStart \/ e.team = NoTeam THEN gs
  ELSE LET old == Get(gs, KeyOf(e), NewGroup)
       IN Put(gs, KeyOf(e), [old EXCEPT !.teams = @ \cup {e.team},
                                        !.entries = @ \cup {e.id}])

\* _cleanup_interval_group up to its first await: the entry leaves entry_ids;
\* an emptied group with a thread is archived first (the step suspends), any
\* other emptied group is dropped at once.
CleanupApplies(gs, e) ==
  e.start # NoStart /\ e.kind = "travel" /\ KeyOf(e) \in DOMAIN gs
CleanupEmpties(gs, e) ==
  CleanupApplies(gs, e) /\ gs[KeyOf(e)].entries \ {e.id} = {}
CleanupSuspends(gs, e) ==
  CleanupEmpties(gs, e) /\ gs[KeyOf(e)].thread > 0
CleanupSync(gs, e) ==
  IF ~CleanupApplies(gs, e) THEN gs
  ELSE IF CleanupSuspends(gs, e) THEN [gs EXCEPT ![KeyOf(e)].entries = {}]
  ELSE IF CleanupEmpties(gs, e) THEN Pop(gs, KeyOf(e))
  ELSE [gs EXCEPT ![KeyOf(e)].entries = @ \ {e.id}]
\* No statement of _cleanup_interval_group is inside `async with self._lock`:
\* what it writes up to its first await.
CleanupUnlocked(gs, e) ==
  IF ~CleanupApplies(gs, e) THEN {}
  ELSE IF CleanupEmpties(gs, e) /\ ~CleanupSuspends(gs, e) THEN {"entry_ids", "pop"}
  ELSE {"entry_ids"}

Live(pc) == pc \in {"sleep", "send", "archive", "unmember"}
WLive(pc) == pc \in {"sleep", "create", "populate"}

\* The object as __init__ leaves it.
Constructed ==
  /\ ent = <<>>
  /\ active = Empty
  /\ debounce = Empty
  /\ groups = Empty
  /\ tasks = Empty
  /\ tpc = [u \in UIDs |-> "none"]
  /\ tcancel = [u \in UIDs |-> FALSE]
  /\ trem = [u \in UIDs |-> NoCleanup]
  /\ wtasks = Empty
  /\ wpc = [u \in UIDs |-> "none"]
  /\ wcancel = [u \in UIDs |-> FALSE]
  /\ wrem = [u \in UIDs |-> {}]
  /\ wthread = [u \in UIDs |-> ThreadNone]
  /\ cpc = [u \in UIDs |-> "none"]
  /\ crem = [u \in UIDs |-> NoCleanup]
  /\ threads = <<>>
  /\ perr = FALSE
  /\ unlocked = {}
  /\ fired = [u \in UIDs |-> 0]
  /\ notified = [u \in UIDs |-> 0]
  /\ delivered = <<>>
  /\ lock = NoHolder

\* The first start: there is no file, and cog_load has returned.
Init ==
  /\ Constructed
  /\ ev = Idle
  /\ now = 0
  /\ store = Empty
  /\ rec = Recovered(Empty, 0)

\* A task or a handler has a step to take now: a sleep that is over, a
\* message or a cleanup call that the platform will answer, a cancellation or
\* a done callback to run.
Urgent ==
  \/ rec.pc # "done"
  \/ \E u \in UIDs :
    \/ tpc[u] \in {"send", "archive", "unmember", "finished"}
    \/ tpc[u] = "sleep" /\ (tcancel[u] \/ now >= ent[u].end)
    \/ wpc[u] \in {"reply", "finished"}
    \/ wpc[u] = "sleep" /\ (wcancel[u] \/ now >= ent[u].start)
    \/ WLive(wpc[u]) /\ wcancel[u]
    \/ cpc[u] \in {"archive", "unmember"}
\* ... or a create_thread or an add_user is in flight.
Busy == Urgent \/ \E u \in UIDs : wpc[u] \in {"create", "populate"}

\* The clock moves on to the next instant of `points`, once nothing that is
\* `busy` is left: the instants are seconds apart, and the event loop has run
\* every callback that was ready before the next one is reached.  With Busy
\* the platform has also answered every call by then; with Urgent a
\* create_thread or an add_user may take longer than that.
ClockMoves(points, busy) ==
  /\ ~busy
  /\ \E t \in points :
       /\ t > now
       /\ \A s \in points : s > now => t <= s
       /\ now' = t
  /\ ev' = Idle
  /\ UNCHANGED <<rec, lock, ent, regVars, debounce, groups, timerVars, waitVars,
                 cancelVars, threads, perr, unlocked, noteVars>>
Tick == ClockMoves(TimePoints, Busy)

\* ------------------------------------------------------------ the handlers
\* _resolve_member_team_role: the one whitelisted role of the member, if exactly one.
ResolveMemberTeamRole(matches) ==
  IF Cardinality(matches) = 1 THEN CHOOSE t \in matches : TRUE ELSE NoTeam
ResolveError(matches) ==
  IF Cardinality(matches) = 0 THEN "no_team" ELSE "multi_team"

\* The checks of countdown() before it builds the entry.
CountdownVerdict(both, d) ==
  IF both THEN "invalid_target"
  ELSE IF d = ParseError THEN "invalid_duration"
  ELSE IF d <= 0 \/ d > MAX_DURATION_SECONDS THEN "out_of_range"
  ELSE "ok"

\* A travel() that takes any interval.
TravelVerdictAnyInterval(matches, d, iv) ==
  IF d = ParseError THEN "invalid_duration"
  ELSE IF d <= 0 \/ d > MAX_DURATION_SECONDS THEN "out_of_range"
  ELSE IF ResolveMemberTeamRole(matches) = NoTeam THEN ResolveError(matches)
  ELSE "ok"
\* The checks of travel() before it builds the entry.
TravelVerdict(matches, d, iv) ==
  IF iv < 0 \/ iv > MAX_INTERVAL_MINUTES THEN "invalid_interval"
  ELSE IF d = ParseError THEN "invalid_duration"
  ELSE IF d <= 0 \/ d > MAX_DURATION_SECONDS THEN "out_of_range"
  ELSE IF ResolveMemberTeamRole(matches) = NoTeam THEN ResolveError(matches)
  ELSE "ok"

\* _schedule_countdown: the task is made and _tasks[id] set to it (whatever was there).
ScheduleCountdown(ts, e) == Put(ts, e.id, e.uid)

\* The CountdownEntry countdown() builds at time t.
CountdownEntry(uid, id, g, t, d) ==
  [uid |-> uid, id |-> id, guild |-> g, created |-> t, start |-> t, end |-> t + d,
   kind |-> "countdown", team |-> NoTeam]

\* The CountdownEntry travel() builds at time t: it starts at the next boundary.
TravelEntry(uid, id, team, t, d, iv) ==
  [uid |-> uid, id |-> id, guild |-> TeamGuild(team), created |-> t,
   start |-> t + SecondsUntilNextIntervalBoundary(t, iv),
   end |-> t + SecondsUntilNextIntervalBoundary(t, iv) + d,
   kind |-> "travel", team |-> team]

\* countdown(): one step up to its reply.
CreateCountdown(both, d, g, id) ==
  /\ lock = NoHolder
  /\ IF CountdownVerdict(both, d) # "ok"
     THEN /\ ev' = CreateEvent("countdown", 0, 0, CountdownVerdict(both, d),
                                Request(both, {}, d, 0))
          /\ UNCHANGED <<ent, regVars, timerVars>>
     ELSE LET e == CountdownEntry(Len(ent) + 1, id, g, now, d)
          IN /\ IsFree(id)
             /\ ent' = Append(ent, e)
             /\ active' = Put(active, id, e)
             /\ store' = Persist(active')
             /\ tasks' = ScheduleCountdown(tasks, e)
             /\ tpc' = [tpc EXCEPT ![e.uid] = "sleep"]
             /\ ev' = CreateEvent("countdown", id, e.uid, "created",
                                   Request(both, {}, d, 0))
             /\ UNCHANGED <<tcancel, trem>>
  /\ UNCHANGED <<now, lock, rec, debounce, groups, waitVars, cancelVars, threads, perr, unlocked,
                 noteVars>>

DebouncedInclusive(db, key, t) == key \in DOMAIN db /\ t - db[key] <= DEBOUNCE_SECONDS
\* The debounce test of travel(): the last accepted request of the key is
\* less than 5 seconds old.
Debounced(db, key, t) == key \in DOMAIN db /\ t - db[key] < DEBOUNCE_SECONDS

\* A travel() whose rejected request restarts the debounce window.
CreateTravelRestamp(matches, d, iv, id) ==
  /\ lock = NoHolder
  /\ IF TravelVerdict(matches, d, iv) # "ok"
     THEN /\ ev' = CreateEvent("travel", 0, 0, TravelVerdict(matches, d, iv),
                                Request(FALSE, matches, d, iv))
          /\ UNCHANGED <<ent, regVars, debounce, groups, timerVars, waitVars>>
     ELSE LET team == ResolveMemberTeamRole(matches)
              wait_seconds == SecondsUntilNextIntervalBoundary(now, iv)
              e == TravelEntry(Len(ent) + 1, id, team, now, d, iv)
              key == <<TeamGuild(team), team>>
          IN /\ IsFree(id)
             /\ IF Debounced(debounce, key, now)
                THEN /\ ev' = CreateEvent("travel", 0, 0, "throttled",
                                           Request(FALSE, matches, d, iv))
                     /\ debounce' = Put(debounce, key, now)
                     /\ UNCHANGED <<ent, regVars, groups, timerVars, waitVars>>
                ELSE /\ ent' = Append(ent, e)
                     /\ debounce' = Put(debounce, key, now)
                     /\ active' = Put(active, id, e)
                     /\ store' = Persist(active')
                     /\ groups' = IF wait_seconds > 0
                                  THEN RegisterIntervalGroup(groups, e) ELSE groups
                     /\ tasks' = ScheduleCountdown(tasks, e)
                     /\ tpc' = [tpc EXCEPT ![e.uid] = "sleep"]
                     /\ wpc' = [wpc EXCEPT ![e.uid] =
                                  IF wait_seconds > 0 THEN "reply" ELSE "none"]
                     /\ ev' = CreateEvent("travel", id, e.uid, "created",
                                           Request(FALSE, matches, d, iv))
                     /\ UNCHANGED <<tcancel, trem, wtasks, wcancel, wrem, wthread>>
  /\ UNCHANGED <<now, lock, rec, cancelVars, threads, perr, unlocked, noteVars>>

\* travel(): one step up to its first reply.  The entry (and its id) is built
\* before the debounce test; a waiting entry (wait_seconds > 0) joins its group,
\* and the handler goes on to start the wait task once its reply is sent.
CreateTravel(matches, d, iv, id) ==
  /\ lock = NoHolder
  /\ IF TravelVerdict(matches, d, iv) # "ok"
     THEN /\ ev' = CreateEvent("travel", 0, 0, TravelVerdict(matches, d, iv),
                                Request(FALSE, matches, d, iv))
          /\ UNCHANGED <<ent, regVars, debounce, groups, timerVars, waitVars>>
     ELSE LET team == ResolveMemberTeamRole(matches)
              wait_seconds == SecondsUntilNextIntervalBoundary(now, iv)
              e == TravelEntry(Len(ent) + 1, id, team, now, d, iv)
              key == <<TeamGuild(team), team>>
          IN /\ IsFree(id)
             /\ IF Debounced(debounce, key, now)
                THEN /\ ev' = CreateEvent("travel", 0, 0, "throttled",
                                           Request(FALSE, matches, d, iv))
                     /\ UNCHANGED <<ent, regVars, debounce, groups, timerVars, waitVars>>
                ELSE /\ ent' = Append(ent, e)
                     /\ debounce' = Put(debounce, key, now)
                     /\ active' = Put(active, id, e)
                     /\ store' = Persist(active')
                     /\ groups' = IF wait_seconds > 0
                                  THEN RegisterIntervalGroup(groups, e) ELSE groups
                     /\ tasks' = ScheduleCountdown(tasks, e)
                     /\ tpc' = [tpc EXCEPT ![e.uid] = "sleep"]
                     /\ wpc' = [wpc EXCEPT ![e.uid] =
                                  IF wait_seconds > 0 THEN "reply" ELSE "none"]
                     /\ ev' = CreateEvent("travel", id, e.uid, "created",
                                           Request(FALSE, matches, d, iv))
                     /\ UNCHANGED <<tcancel, trem, wtasks, wcancel, wrem, wthread>>
  /\ UNCHANGED <<now, lock, rec, cancelVars, threads, perr, unlocked, noteVars>>

\* travel() after its "waiting" reply: the wait task is made and registered.
\* A reply the platform refuses raises out of the handler: no wait task.
TravelStartWait(u, ok) ==
  /\ wpc[u] = "reply"
  /\ IF ok THEN /\ wtasks' = Put(wtasks, ent[u].id, u)
                /\ wpc' = [wpc EXCEPT ![u] = "sleep"]
                /\ perr' = perr
           ELSE /\ wpc' = [wpc EXCEPT ![u] = "done"]
                /\ perr' = TRUE
                /\ UNCHANGED wtasks
  /\ ev' = Idle
  /\ UNCHANGED <<now, lock, rec, ent, regVars, debounce, groups, timerVars, wcancel, wrem,
                 wthread, cancelVars, threads, unlocked, noteVars>>

\* ------------------------------------------------------------ the platform
NewThread(key) == [key |-> key, archived |-> FALSE, members |-> {}, mids |-> {}]
\* thread.edit(archived=True, locked=True)
ArchiveThread(ths, tid, ok) == IF ok THEN [ths EXCEPT ![tid].archived = TRUE] ELSE ths
\* thread.remove_user(member)
RemoveUser(ths, tid, m, ok) == IF ok THEN [ths EXCEPT ![tid].members = @ \ {m}] ELSE ths
\* thread.add_user(member); member_ids.add(member.id)
AddUser(ths, tid, m, ok) ==
  IF ok THEN [ths EXCEPT ![tid].members = @ \cup {m}, ![tid].mids = @ \cup {m}] ELSE ths

\* ---------------------------------------------------- _run_countdown tasks
PresentAlways(e) == TRUE
\* The presence check of _run_countdown, under the lock: by id.
Present(e) == e.id \in DOMAIN active

\* A _run_countdown that sends the completion inside `async with self._lock`.
RunWakeLocked(u) ==
  /\ lock = NoHolder
  /\ tpc[u] = "sleep" /\ ~tcancel[u]
  /\ now >= ent[u].end
  /\ IF Present(ent[u])
     THEN /\ tpc' = [tpc EXCEPT ![u] = "send"]
          /\ fired' = [fired EXCEPT ![u] = @ + 1]
          /\ lock' = u
          /\ ev' = Idle
     ELSE /\ tpc' = [tpc EXCEPT ![u] = "finished"]
          /\ fired' = fired
          /\ lock' = lock
          /\ ev' = Event("fire", 0, u, "absent")
  /\ UNCHANGED <<now, rec, ent, regVars, debounce, groups, tasks, tcancel, trem, waitVars,
                 cancelVars, threads, perr, unlocked, notified, delivered>>

\* asyncio.sleep(delay) is over: the entry is looked up under the lock, which
\* is released at once; an absent entry ends the task, a present one goes on
\* to _send_completion.
RunWake(u) ==
  /\ lock = NoHolder
  /\ tpc[u] = "sleep" /\ ~tcancel[u]
  /\ now >= ent[u].end
  /\ IF Present(ent[u])
     THEN /\ tpc' = [tpc EXCEPT ![u] = "send"]
          /\ fired' = [fired EXCEPT ![u] = @ + 1]
          /\ ev' = Idle
     ELSE /\ tpc' = [tpc EXCEPT ![u] = "finished"]
          /\ fired' = fired
          /\ ev' = Event("fire", 0, u, "absent")
  /\ UNCHANGED <<now, lock, rec, ent, regVars, debounce, groups, tasks, tcancel, trem, waitVars,
                 cancelVars, threads, perr, unlocked, notified, delivered>>

\* _remove_entry
RemoveEntry(a, id) == Pop(a, id)

\* A _send_completion that lets the failure of the send out: _run_countdown
\* logs it and ends, without _cleanup_interval_group and _remove_entry.
RunSentRaises(u, ok) ==
  /\ tpc[u] = "send" /\ ~tcancel[u]
  /\ (ok /\ ~CleanupSuspends(groups, ent[u])) => lock = NoHolder
  /\ notified' = [notified EXCEPT ![u] = IF ok THEN @ + 1 ELSE @]
  /\ delivered' = IF ok THEN Deliver(delivered, ent[u]) ELSE delivered
  /\ groups' = IF ok THEN CleanupSync(groups, ent[u]) ELSE groups
  /\ unlocked' = IF ok THEN unlocked \cup CleanupUnlocked(groups, ent[u]) ELSE unlocked
  /\ IF ok /\ CleanupSuspends(groups, ent[u])
     THEN /\ tpc' = [tpc EXCEPT ![u] = "archive"]
          /\ trem' = [trem EXCEPT ![u] = [thread |-> groups[KeyOf(ent[u])].thread,
                                           rem |-> {}]]
          /\ UNCHANGED regVars
     ELSE /\ tpc' = [tpc EXCEPT ![u] = "finished"]
          /\ active' = IF ok THEN RemoveEntry(active, ent[u].id) ELSE active
          /\ store' = Persist(active')
          /\ trem' = trem
  /\ ev' = Idle
  /\ UNCHANGED <<now, lock, rec, ent, debounce, tasks, tcancel, waitVars, cancelVars, threads,
                 perr, fired>>

\* _send_completion returned (the message sent, or the failure swallowed);
\* _cleanup_interval_group runs to its first await, or to its end and then
\* _remove_entry follows in the same step.
RunSent(u, ok) ==
  /\ tpc[u] = "send" /\ ~tcancel[u]
  /\ ~CleanupSuspends(groups, ent[u]) => lock = NoHolder
  /\ notified' = [notified EXCEPT ![u] = IF ok THEN @ + 1 ELSE @]
  /\ delivered' = IF ok THEN Deliver(delivered, ent[u]) ELSE delivered
  /\ groups' = CleanupSync(groups, ent[u])
  /\ IF CleanupSuspends(groups, ent[u])
     THEN /\ tpc' = [tpc EXCEPT ![u] = "archive"]
          /\ trem' = [trem EXCEPT ![u] = [thread |-> groups[KeyOf(ent[u])].thread,
                                           rem |-> {}]]
          /\ UNCHANGED regVars
     ELSE /\ tpc' = [tpc EXCEPT ![u] = "finished"]
          /\ active' = RemoveEntry(active, ent[u].id)
          /\ store' = Persist(active')
          /\ trem' = trem
  /\ unlocked' = unlocked \cup CleanupUnlocked(groups, ent[u])
  /\ ev' = Idle
  /\ UNCHANGED <<now, lock, rec, ent, debounce, tasks, tcancel, waitVars, cancelVars, threads,
                 perr, fired>>

\* thread.edit returned: the members to remove are list(member_ids) as it is now.
RunArchived(u, ok) ==
  /\ tpc[u] = "archive" /\ ~tcancel[u]
  /\ threads[trem[u].thread].mids = {} => lock = NoHolder
  /\ LET tid == trem[u].thread
         todo == threads[tid].mids
     IN /\ threads' = ArchiveThread(threads, tid, ok)
        /\ perr' = (perr \/ ~ok)
        /\ unlocked' = IF todo # {} THEN unlocked ELSE unlocked \cup {"pop"}
        /\ IF todo # {}
           THEN /\ tpc' = [tpc EXCEPT ![u] = "unmember"]
                /\ trem' = [trem EXCEPT ![u].rem = todo]
                /\ UNCHANGED <<regVars, groups>>
           ELSE /\ tpc' = [tpc EXCEPT ![u] = "finished"]
                /\ groups' = Pop(groups, KeyOf(ent[u]))
                /\ active' = RemoveEntry(active, ent[u].id)
                /\ store' = Persist(active')
                /\ trem' = trem
  /\ ev' = Idle
  /\ UNCHANGED <<now, lock, rec, ent, debounce, tasks, tcancel, waitVars, cancelVars, noteVars>>

\* thread.remove_user returned for one member; after the last one the group is
\* popped and _remove_entry follows.
RunRemoved(u, m, ok) ==
  /\ tpc[u] = "unmember" /\ ~tcancel[u]
  /\ trem[u].rem = {m} => lock = NoHolder
  /\ m \in trem[u].rem
  /\ threads' = RemoveUser(threads, trem[u].thread, m, ok)
  /\ perr' = (perr \/ ~ok)
  /\ unlocked' = IF trem[u].rem = {m} THEN unlocked \cup {"pop"} ELSE unlocked
  /\ trem' = [trem EXCEPT ![u].rem = @ \ {m}]
  /\ IF trem[u].rem = {m}
     THEN /\ tpc' = [tpc EXCEPT ![u] = "finished"]
          /\ groups' = Pop(groups, KeyOf(ent[u]))
          /\ active' = RemoveEntry(active, ent[u].id)
          /\ store' = Persist(active')
     ELSE UNCHANGED <<tpc, groups, regVars>>
  /\ ev' = Idle
  /\ UNCHANGED <<now, lock, rec, ent, debounce, tasks, tcancel, waitVars, cancelVars, noteVars>>

\* The CancelledError reaches the task at the await it is suspended in and
\* ends it ("cancelled before completion").  The platform call that was in
\* flight may or may not have taken effect (landed).
RunCancelled(u, landed) ==
  /\ Live(tpc[u]) /\ tcancel[u]
  /\ tpc' = [tpc EXCEPT ![u] = "finished"]
  /\ tcancel' = [tcancel EXCEPT ![u] = FALSE]
  /\ notified' = [notified EXCEPT ![u] = IF landed /\ tpc[u] = "send" THEN @ + 1 ELSE @]
  /\ delivered' = IF landed /\ tpc[u] = "send" THEN Deliver(delivered, ent[u]) ELSE delivered
  /\ threads' = IF landed /\ tpc[u] = "archive"
                THEN ArchiveThread(threads, trem[u].thread, TRUE)
                ELSE IF landed /\ tpc[u] = "unmember"
                THEN RemoveUser(threads, trem[u].thread,
                                CHOOSE m \in trem[u].rem : TRUE, TRUE)
                ELSE threads
  /\ ev' = Idle
  /\ UNCHANGED <<now, lock, rec, ent, regVars, debounce, groups, tasks, trem, waitVars,
                 cancelVars, perr, unlocked, fired>>

\* The task's done callback: self._tasks.pop(countdown_id, None).
RunDone(u) ==
  /\ tpc[u] = "finished"
  /\ tasks' = Pop(tasks, ent[u].id)
  /\ tpc' = [tpc EXCEPT ![u] = "done"]
  /\ ev' = Idle
  /\ UNCHANGED <<now, lock, rec, ent, regVars, debounce, groups, tcancel, trem, waitVars,
                 cancelVars, threads, perr, unlocked, noteVars>>

\* ------------------------------------------------------------ cancellation
\* _find_recent_travel_for_team: the active travel entries of the team; the
\* one created last is taken.
AnyCandidates(a, team) == {a[i] : i \in DOMAIN a}
TravelCandidates(a, team) ==
  {a[i] : i \in {j \in DOMAIN a : a[j].kind = "travel" /\ a[j].team = team}}
FindRecentTravelForTeam(a, team) ==
  CHOOSE e \in TravelCandidates(a, team) :
    \A o \in TravelCandidates(a, team) : o.created <= e.created

TooLateInclusive(e, t) == t - e.created >= GRACE_SECONDS
\* The grace test of _cancel_recent_travel.
TooLate(e, t) == t - e.created > GRACE_SECONDS

\* task.cancel() on the task registered under the id, if any is still running.
CancelTask(flags, ts, pcs, id) ==
  IF id \in DOMAIN ts /\ Live(pcs[ts[id]]) THEN [flags EXCEPT ![ts[id]] = TRUE] ELSE flags
\* _cancel_wait_task
CancelWaitTask(flags, ws, pcs, id) ==
  IF id \in DOMAIN ws /\ WLive(pcs[ws[id]]) THEN [flags EXCEPT ![ws[id]] = TRUE] ELSE flags

\* _cancel_entry up to the first await of its _cleanup_interval_group.
CancelEntry(e) ==
  /\ lock = NoHolder
  /\ active' = Pop(active, e.id)
  /\ store' = Persist(active')
  /\ wcancel' = CancelWaitTask(wcancel, wtasks, wpc, e.id)
  /\ wtasks' = Pop(wtasks, e.id)
  /\ tcancel' = CancelTask(tcancel, tasks, tpc, e.id)
  /\ tasks' = Pop(tasks, e.id)
  /\ groups' = CleanupSync(groups, e)
  /\ unlocked' = unlocked \cup CleanupUnlocked(groups, e)
  /\ IF CleanupSuspends(groups, e)
     THEN /\ cpc' = [cpc EXCEPT ![e.uid] = "archive"]
          /\ crem' = [crem EXCEPT ![e.uid] = [thread |-> groups[KeyOf(e)].thread,
                                             rem |-> {}]]
     ELSE /\ cpc' = [cpc EXCEPT ![e.uid] = "done"]
          /\ crem' = crem
  /\ UNCHANGED <<now, lock, rec, ent, debounce, tpc, trem, wpc, wrem, wthread, threads, perr,
                 noteVars>>

\* A cancel_countdown that, for an id it does not find, still drops whatever
\* timer is registered under the id.
CancelByIdEager(id, admin) ==
  IF admin /\ id \notin DOMAIN active
  THEN /\ ev' = CancelEvent(id, 0, "notfound", admin)
       /\ tcancel' = CancelTask(tcancel, tasks, tpc, id)
       /\ tasks' = Pop(tasks, id)
       /\ UNCHANGED <<now, lock, rec, ent, regVars, debounce, groups, tpc, trem, waitVars,
                      cancelVars, threads, perr, unlocked, noteVars>>
  ELSE IF admin
  THEN /\ CancelEntry(active[id])
       /\ ev' = CancelEvent(id, active[id].uid, "cancelled", admin)
  ELSE /\ ev' = CancelEvent(id, 0, "refused", admin)
       /\ UNCHANGED <<now, lock, rec, ent, regVars, debounce, groups, timerVars, waitVars,
                      cancelVars, threads, perr, unlocked, noteVars>>

\* A cancel_countdown that does not ask for the admin role.
CancelByIdAnyone(id, admin) ==
  IF id \notin DOMAIN active
  THEN /\ ev' = CancelEvent(id, 0, "notfound", admin)
       /\ UNCHANGED <<now, lock, rec, ent, regVars, debounce, groups, timerVars, waitVars,
                      cancelVars, threads, perr, unlocked, noteVars>>
  ELSE /\ CancelEntry(active[id])
       /\ ev' = CancelEvent(id, active[id].uid, "cancelled", admin)

\* _has_admin_role is the input admin.  cancel_countdown with an id.
CancelById(id, admin) ==
  IF ~admin
  THEN /\ ev' = CancelEvent(id, 0, "refused", admin)
       /\ UNCHANGED <<now, lock, rec, ent, regVars, debounce, groups, timerVars, waitVars,
                      cancelVars, threads, perr, unlocked, noteVars>>
  ELSE IF id \notin DOMAIN active
  THEN /\ ev' = CancelEvent(id, 0, "notfound", admin)
       /\ UNCHANGED <<now, lock, rec, ent, regVars, debounce, groups, timerVars, waitVars,
                      cancelVars, threads, perr, unlocked, noteVars>>
  ELSE /\ CancelEntry(active[id])
       /\ ev' = CancelEvent(id, active[id].uid, "cancelled", admin)

\* cancel_countdown with "recent": _cancel_recent_travel.
CancelRecent(matches) ==
  LET team == ResolveMemberTeamRole(matches)
  IN IF team = NoTeam
     THEN /\ ev' = Event("recent", 0, 0, ResolveError(matches))
          /\ UNCHANGED <<now, lock, rec, ent, regVars, debounce, groups, timerVars, waitVars,
                         cancelVars, threads, perr, unlocked, noteVars>>
     ELSE IF TravelCandidates(active, team) = {}
     THEN /\ ev' = Event("recent", team, 0, "notfound")
          /\ UNCHANGED <<now, lock, rec, ent, regVars, debounce, groups, timerVars, waitVars,
                         cancelVars, threads, perr, unlocked, noteVars>>
     ELSE IF TooLate(FindRecentTravelForTeam(active, team), now)
     THEN /\ ev' = Event("recent", team, 0, "too_late")
          /\ UNCHANGED <<now, lock, rec, ent, regVars, debounce, groups, timerVars, waitVars,
                         cancelVars, threads, perr, unlocked, noteVars>>
     ELSE /\ CancelEntry(FindRecentTravelForTeam(active, team))
          /\ ev' = Event("recent", team, FindRecentTravelForTeam(active, team).uid,
                         "cancelled")

\* The cancel handler's _cleanup_interval_group after thread.edit.
CancelArchived(u, ok) ==
  /\ cpc[u] = "archive"
  /\ LET tid == crem[u].thread
         todo == threads[tid].mids
     IN /\ threads' = ArchiveThread(threads, tid, ok)
        /\ perr' = (perr \/ ~ok)
        /\ unlocked' = IF todo # {} THEN unlocked ELSE unlocked \cup {"pop"}
        /\ IF todo # {}
           THEN /\ cpc' = [cpc EXCEPT ![u] = "unmember"]
                /\ crem' = [crem EXCEPT ![u].rem = todo]
                /\ groups' = groups
           ELSE /\ cpc' = [cpc EXCEPT ![u] = "done"]
                /\ groups' = Pop(groups, KeyOf(ent[u]))
                /\ crem' = crem
  /\ ev' = Idle
  /\ UNCHANGED <<now, lock, rec, ent, regVars, debounce, timerVars, waitVars, noteVars>>

\* ... and after each thread.remove_user; the group is popped after the last.
CancelRemoved(u, m, ok) ==
  /\ cpc[u] = "unmember"
  /\ m \in crem[u].rem
  /\ threads' = RemoveUser(threads, crem[u].thread, m, ok)
  /\ perr' = (perr \/ ~ok)
  /\ unlocked' = IF crem[u].rem = {m} THEN unlocked \cup {"pop"} ELSE unlocked
  /\ crem' = [crem EXCEPT ![u].rem = @ \ {m}]
  /\ IF crem[u].rem = {m}
     THEN /\ cpc' = [cpc EXCEPT ![u] = "done"]
          /\ groups' = Pop(groups, KeyOf(ent[u]))
     ELSE UNCHANGED <<cpc, groups>>
  /\ ev' = Idle
  /\ UNCHANGED <<now, lock, rec, ent, regVars, debounce, timerVars, waitVars, noteVars>>

\* ---------------------------------------- _send_travel_start_after_wait tasks
EnsureVerdictUnguarded(gs, e) ==
  IF e.start = NoStart \/ KeyOf(e) \notin DOMAIN gs THEN "none"
  ELSE IF gs[KeyOf(e)].thread \notin {ThreadNone, ThreadPending} THEN "have"
  ELSE IF Cardinality(gs[KeyOf(e)].teams) < 2 THEN "none"
  ELSE "claim"
\* An _ensure_interval_thread that claims the creation although the group has
\* its thread.
EnsureVerdictReclaim(gs, e) ==
  IF e.start = NoStart \/ KeyOf(e) \notin DOMAIN gs THEN "none"
  ELSE IF Cardinality(gs[KeyOf(e)].teams) < 2 THEN "none"
  ELSE IF gs[KeyOf(e)].thread = ThreadPending THEN "none"
  ELSE "claim"
\* What the first locked block of _ensure_interval_thread decides.
EnsureVerdict(gs, e) ==
  IF e.start = NoStart \/ KeyOf(e) \notin DOMAIN gs THEN "none"
  ELSE IF gs[KeyOf(e)].thread \notin {ThreadNone, ThreadPending} THEN "have"
  ELSE IF Cardinality(gs[KeyOf(e)].teams) < 2 THEN "none"
  ELSE IF gs[KeyOf(e)].thread = ThreadPending THEN "none"
  ELSE "claim"

\* asyncio.sleep(wait_seconds) is over.  A task whose entry's id is not active
\* ends; otherwise _ensure_interval_thread runs its first locked block and,
\* having claimed the creation, resolves the guild.  Whenever the coroutine
\* ends, its finally pops _wait_tasks (the "started" message it sends before
\* that changes nothing here and is not a step of its own).
WaitWake(u, guildOk) ==
  /\ lock = NoHolder
  /\ wpc[u] = "sleep" /\ ~wcancel[u]
  /\ now >= ent[u].start
  /\ IF ent[u].id \notin DOMAIN active
     THEN /\ wpc' = [wpc EXCEPT ![u] = "finished"]
          /\ wtasks' = Pop(wtasks, ent[u].id)
          /\ ev' = Idle
          /\ UNCHANGED <<groups, perr, unlocked>>
     ELSE IF EnsureVerdict(groups, ent[u]) = "claim"
     THEN /\ groups' = [groups EXCEPT ![KeyOf(ent[u])].thread = ThreadPending]
          /\ wpc' = [wpc EXCEPT ![u] = IF guildOk THEN "create" ELSE "finished"]
          /\ wtasks' = IF guildOk THEN wtasks ELSE Pop(wtasks, ent[u].id)
          /\ perr' = (perr \/ ~guildOk)
          /\ unlocked' = unlocked
          /\ ev' = Idle
     ELSE /\ wpc' = [wpc EXCEPT ![u] = "finished"]
          /\ wtasks' = Pop(wtasks, ent[u].id)
          /\ ev' = Idle
          /\ UNCHANGED <<groups, perr, unlocked>>
  /\ UNCHANGED <<now, lock, rec, ent, regVars, debounce, timerVars, wcancel, wrem, wthread,
                 cancelVars, threads, noteVars>>

\* Everyone _ensure_interval_thread will add: the members of every team role.
MembersOf(teams) == UNION {TeamMembers(t) : t \in teams}

\* fetch_channel / create_thread returned.  out = "nochannel": the parent
\* channel could not be fetched (return None); "failed": create_thread raised
\* (thread_id is reset to None); "created": the second locked block stores the
\* thread in the group, if the group is still there, and the members are added.
WaitCreate(u, out) ==
  /\ out # "nochannel" => lock = NoHolder
  /\ wpc[u] = "create" /\ ~wcancel[u]
  /\ LET k == KeyOf(ent[u])
         tid == Len(threads) + 1
         populates == out = "created" /\ k \in DOMAIN groups
                      /\ MembersOf(groups[k].teams) # {}
     IN /\ groups' = IF k \notin DOMAIN groups \/ out = "nochannel" THEN groups
                     ELSE IF out = "failed" THEN [groups EXCEPT ![k].thread = ThreadNone]
                     ELSE [groups EXCEPT ![k].thread = tid]
        /\ threads' = IF out = "created" THEN Append(threads, NewThread(k)) ELSE threads
        /\ wthread' = IF out = "created" THEN [wthread EXCEPT ![u] = tid] ELSE wthread
        /\ wrem' = IF populates THEN [wrem EXCEPT ![u] = MembersOf(groups[k].teams)]
                   ELSE wrem
        /\ wpc' = [wpc EXCEPT ![u] = IF populates THEN "populate" ELSE "finished"]
        /\ wtasks' = IF populates THEN wtasks ELSE Pop(wtasks, ent[u].id)
        /\ perr' = (perr \/ out # "created")
        /\ unlocked' = unlocked
  /\ ev' = Idle
  /\ UNCHANGED <<now, lock, rec, ent, regVars, debounce, timerVars, wcancel, cancelVars, noteVars>>

\* thread.add_user returned for one member; after the last one the coroutine ends.
WaitAddMember(u, m, ok) ==
  /\ wpc[u] = "populate" /\ ~wcancel[u]
  /\ m \in wrem[u]
  /\ threads' = AddUser(threads, wthread[u], m, ok)
  /\ perr' = (perr \/ ~ok)
  /\ unlocked' = IF ok THEN unlocked \cup {"member_ids"} ELSE unlocked
  /\ wrem' = [wrem EXCEPT ![u] = @ \ {m}]
  /\ wpc' = [wpc EXCEPT ![u] = IF wrem[u] = {m} THEN "finished" ELSE "populate"]
  /\ wtasks' = IF wrem[u] = {m} THEN Pop(wtasks, ent[u].id) ELSE wtasks
  /\ ev' = Idle
  /\ UNCHANGED <<now, lock, rec, ent, regVars, debounce, groups, timerVars, wcancel,
                 wthread, cancelVars, noteVars>>

\* The CancelledError reaches the wait task at its await: no except clause
\* catches it, the finally pops _wait_tasks.  A create_thread or an add_user
\* in flight may have landed on the platform all the same.
WaitCancelled(u, landed) ==
  /\ WLive(wpc[u]) /\ wcancel[u]
  /\ wpc' = [wpc EXCEPT ![u] = "finished"]
  /\ wcancel' = [wcancel EXCEPT ![u] = FALSE]
  /\ wtasks' = Pop(wtasks, ent[u].id)
  /\ threads' = IF landed /\ wpc[u] = "create"
                THEN Append(threads, NewThread(KeyOf(ent[u])))
                ELSE IF landed /\ wpc[u] = "populate"
                THEN [threads EXCEPT ![wthread[u]].members =
                                        @ \cup {CHOOSE m \in wrem[u] : TRUE}]
                ELSE threads
  /\ ev' = Idle
  /\ UNCHANGED <<now, lock, rec, ent, regVars, debounce, groups, timerVars, wrem, wthread,
                 cancelVars, perr, unlocked, noteVars>>

\* The wait task's done callback: self._wait_tasks.pop(countdown_id, None).
WaitDone(u) ==
  /\ wpc[u] = "finished"
  /\ wtasks' = Pop(wtasks, ent[u].id)
  /\ wpc' = [wpc EXCEPT ![u] = "done"]
  /\ ev' = Idle
  /\ UNCHANGED <<now, lock, rec, ent, regVars, debounce, groups, timerVars, wcancel, wrem,
                 wthread, cancelVars, threads, perr, unlocked, noteVars>>

\* ------------------------------------------------- _load_existing_countdowns
DueStrictly(e, t) == e.end < t
\* The partition of _load_existing_countdowns: an entry is due at its end.
Due(e, t) == e.end <= t

\* The group a pending travel entry that has not started yet is put back into.
RecoverGroup(gs, e, t) ==
  IF e.kind = "travel" /\ e.start > t /\ e.team # NoTeam
  THEN RegisterIntervalGroup(gs, e) ELSE gs
\* ... by statements of the loop, which is not inside `async with self._lock`.
RecoverUnlocked(gs, e, t) ==
  IF e.kind = "travel" /\ e.start > t /\ e.team # NoTeam
  THEN {"setdefault", "team_role_ids", "entry_ids"} ELSE {}

\* One turn of the loop over the stored records: the record becomes an entry;
\* a due entry is completed at once (the loop waits for _send_completion), a
\* pending one is kept for the registry and for scheduling.
RecoverEntry(id) ==
  /\ rec.pc = "load" /\ id \in rec.todo
  /\ LET e == FromDict(rec.stored[id], Len(ent) + 1)
     IN /\ ent' = Append(ent, e)
        /\ IF Due(e, rec.now)
           THEN /\ fired' = [fired EXCEPT ![e.uid] = @ + 1]
                /\ rec' = [rec EXCEPT !.pc = "send", !.todo = @ \ {id},
                                      !.sending = e.uid]
                /\ UNCHANGED <<groups, unlocked>>
           ELSE /\ fired' = fired
                /\ rec' = [rec EXCEPT !.todo = @ \ {id}, !.act = Put(@, id, e),
                                      !.sched = Append(@, e.uid)]
                /\ groups' = RecoverGroup(groups, e, rec.now)
                /\ unlocked' = unlocked \cup RecoverUnlocked(groups, e, rec.now)
  /\ ev' = Idle
  /\ UNCHANGED <<now, lock, regVars, debounce, timerVars, waitVars, cancelVars, threads,
                 perr, notified, delivered>>

\* _send_completion of a due entry returned (sent, or the failure swallowed).
RecoverSent(ok) ==
  /\ rec.pc = "send"
  /\ notified' = [notified EXCEPT ![rec.sending] = IF ok THEN @ + 1 ELSE @]
  /\ delivered' = IF ok THEN Deliver(delivered, ent[rec.sending]) ELSE delivered
  /\ rec' = [rec EXCEPT !.pc = "load", !.sending = 0]
  /\ ev' = Idle
  /\ UNCHANGED <<now, lock, ent, regVars, debounce, groups, timerVars, waitVars, cancelVars,
                 threads, perr, unlocked, fired>>

RECURSIVE ScheduleAll(_, _)
\* for entry in to_schedule: self._schedule_countdown(entry)
ScheduleAll(ts, us) ==
  IF us = <<>> THEN ts
  ELSE ScheduleAll(ScheduleCountdown(ts, ent[Head(us)]), Tail(us))

\* The loop is over: the registry is replaced, the file rewritten, and every
\* pending entry gets its timer.
RecoverFinish ==
  /\ lock = NoHolder
  /\ rec.pc = "load" /\ rec.todo = {}
  /\ active' = rec.act
  /\ store' = Persist(active')
  /\ tasks' = ScheduleAll(tasks, rec.sched)
  /\ tpc' = [u \in UIDs |-> IF \E i \in 1..Len(rec.sched) : rec.sched[i] = u
                             THEN "sleep" ELSE tpc[u]]
  /\ rec' = [Recovered(rec.stored, rec.now) EXCEPT !.writes = rec.writes + 1]
  /\ ev' = Idle
  /\ UNCHANGED <<now, lock, ent, debounce, groups, tcancel, trem, waitVars, cancelVars,
                 threads, perr, unlocked, noteVars>>

\* ------------------------------------------------------------ specification
CreateOutcomes == {"created", "failed", "nochannel"}

\* Ids are interchangeable, and so are the teams: the first entry of a run
\* draws id 1, and the first travel request comes from team 11.
FirstDraw(id) == ent = <<>> => id = 1
FirstTeam(t) == debounce = Empty => t = 11

Requests ==
  \/ \E d \in Durations, g \in Guilds, id \in IDs :
       Len(ent) < MaxEntries /\ FirstDraw(id) /\ CreateCountdown(FALSE, d, g, id)
  \/ \E t \in Teams, d \in Durations, iv \in Intervals, id \in IDs :
       /\ Len(ent) < MaxEntries /\ FirstDraw(id) /\ FirstTeam(t)
       /\ CreateTravel({t}, d, iv, id)
  \/ \E id \in IDs, admin \in BOOLEAN : CancelById(id, admin)
  \/ \E matches \in SUBSET Teams : CancelRecent(matches)

Timers ==
  \/ \E u \in UIDs : RunWake(u)
  \/ \E u \in UIDs, ok \in BOOLEAN : RunSent(u, ok)
  \/ \E u \in UIDs : RunArchived(u, TRUE)
  \/ \E u \in UIDs, m \in MembersOf(Teams) : RunRemoved(u, m, TRUE)
  \/ \E u \in UIDs, landed \in BOOLEAN : RunCancelled(u, landed)
  \/ \E u \in UIDs : RunDone(u)

Waits ==
  \/ \E u \in UIDs : TravelStartWait(u, TRUE)
  \/ \E u \in UIDs, guildOk \in BOOLEAN : WaitWake(u, guildOk)
  \/ \E u \in UIDs, out \in CreateOutcomes : WaitCreate(u, out)
  \/ \E u \in UIDs, m \in MembersOf(Teams) : WaitAddMember(u, m, TRUE)
  \/ \E u \in UIDs, landed \in BOOLEAN : WaitCancelled(u, landed)
  \/ \E u \in UIDs : WaitDone(u)

Cleanups ==
  \/ \E u \in UIDs : CancelArchived(u, TRUE)
  \/ \E u \in UIDs, m \in MembersOf(Teams) : CancelRemoved(u, m, TRUE)

Next == Tick \/ Requests \/ Timers \/ Waits \/ Cleanups

Spec == Init /\ [][Next]_vars

\* A restart.  The file holds what an earlier run left: entries with distinct
\* ids, made by countdown() or travel() at an instant not after the restart;
\* two travel entries of one team are at least the debounce apart.
RecoverTimes == {4, 60, 244, 300}
StoredRecords(id, t) ==
  {ToDict(CountdownEntry(0, id, g, c, d)) :
     g \in Guilds, c \in {x \in TimePoints : x <= t}, d \in Durations}
  \cup {ToDict(TravelEntry(0, id, team, c, d, iv)) :
     team \in Teams, c \in {x \in TimePoints : x <= t}, d \in Durations,
     iv \in Intervals}
StoredFiles(t) ==
  {f \in UNION {[S -> UNION {StoredRecords(id, t) : id \in IDs}] : S \in SUBSET IDs} :
     /\ \A id \in DOMAIN f : f[id].id = id
     /\ \A i, j \in DOMAIN f :
          (i # j /\ f[i].kind = "travel" /\ f[j].kind = "travel"
             /\ f[i].team = f[j].team)
          => (f[i].created - f[j].created >= DEBOUNCE_SECONDS
              \/ f[j].created - f[i].created >= DEBOUNCE_SECONDS)}

InitRecover ==
  /\ Constructed
  /\ ev = Idle
  /\ now \in RecoverTimes
  /\ store \in StoredFiles(now)
  /\ rec = Recovering(store, now)

NextRecover ==
  \/ \E id \in IDs : RecoverEntry(id)
  \/ \E ok \in BOOLEAN : RecoverSent(ok)
  \/ RecoverFinish
  \/ Tick
  \/ \E u \in UIDs : RunWake(u)
  \/ \E u \in UIDs, ok \in BOOLEAN : RunSent(u, ok)
  \/ \E u \in UIDs : RunDone(u)

SpecRecover == InitRecover /\ [][NextRecover]_vars

\* Countdowns only, created and cancelled by an administrator, with one more
\* entry than Spec allows: an id can be drawn a third time.
NextReuse ==
  \/ \E d \in Durations, g \in Guilds, id \in IDs :
       Len(ent) < MaxEntries + 1 /\ FirstDraw(id) /\ CreateCountdown(FALSE, d, g, id)
  \/ \E id \in IDs : CancelById(id, TRUE)
  \/ Tick
  \/ \E u \in UIDs : RunWake(u)
  \/ \E u \in UIDs, ok \in BOOLEAN : RunSent(u, ok)
  \/ \E u \in UIDs, landed \in BOOLEAN : RunCancelled(u, landed)
  \/ \E u \in UIDs : RunDone(u)

SpecReuse == Init /\ [][NextReuse]_vars

\* Travel requests for the boundary at second 60, from up to three entries,
\* up to that boundary: no timer expires before second 300.  The platform
\* answers every call with success.
CrowdTimes == {4, 10, 60}
CrowdIds == 1..(NumIds + 1)
\* A cancellation to deliver or a done callback to run: the loop runs them
\* before it reads the next request.
Ready ==
  \E u \in UIDs : tcancel[u] \/ wcancel[u] \/ tpc[u] = "finished" \/ wpc[u] = "finished"
NextCrowd ==
  \/ \E t \in Teams, d \in Durations, id \in CrowdIds :
       /\ Len(ent) < MaxEntries + 1 /\ id = Len(ent) + 1 /\ FirstTeam(t)
       /\ SecondsUntilNextIntervalBoundary(now, 1) > 0 /\ ~Ready
       /\ CreateTravel({t}, d, 1, id)
  \/ \E id \in CrowdIds : ~Ready /\ CancelById(id, TRUE)
  \/ ClockMoves(CrowdTimes, Busy)
  \/ \E u \in UIDs : RunCancelled(u, FALSE)
  \/ \E u \in UIDs : RunDone(u)
  \/ \E u \in UIDs : TravelStartWait(u, TRUE)
  \/ \E u \in UIDs : WaitWake(u, TRUE)
  \/ \E u \in UIDs : WaitCreate(u, "created")
  \/ \E u \in UIDs, m \in MembersOf(Teams) : WaitAddMember(u, m, TRUE)
  \/ \E u \in UIDs, landed \in BOOLEAN : WaitCancelled(u, landed)
  \/ \E u \in UIDs : WaitDone(u)
  \/ Cleanups

SpecCrowd == Init /\ [][NextCrowd]_vars

\* Travel requests for the boundary at second 60 that run to their end, on a
\* platform that may take its time over create_thread and add_user.
NextSlow ==
  \/ \E t \in Teams, d \in Durations, id \in IDs :
       /\ Len(ent) < MaxEntries /\ id = Len(ent) + 1 /\ FirstTeam(t)
       /\ SecondsUntilNextIntervalBoundary(now, 1) > 0
       /\ CreateTravel({t}, d, 1, id)
  \/ ClockMoves(TimePoints, Urgent)
  \/ \E u \in UIDs : RunWake(u)
  \/ \E u \in UIDs : RunSent(u, TRUE)
  \/ \E u \in UIDs : RunArchived(u, TRUE)
  \/ \E u \in UIDs, m \in MembersOf(Teams) : RunRemoved(u, m, TRUE)
  \/ \E u \in UIDs : RunDone(u)
  \/ \E u \in UIDs : TravelStartWait(u, TRUE)
  \/ \E u \in UIDs : WaitWake(u, TRUE)
  \/ \E u \in UIDs : WaitCreate(u, "created")
  \/ \E u \in UIDs, m \in MembersOf(Teams) : WaitAddMember(u, m, TRUE)
  \/ \E u \in UIDs : WaitDone(u)

SpecSlow == Init /\ [][NextSlow]_vars

\* Travel requests without an interval, seconds apart, from up to three
\* entries, and self-service cancels: a team that cancelled its travel is
\* still held to the debounce.
DebounceTimes == {0, 2, 5, 6, 11}
NextDebounce ==
  \/ \E t \in Teams, d \in Durations, id \in CrowdIds :
       /\ Len(ent) < MaxEntries + 1 /\ id = Len(ent) + 1 /\ FirstTeam(t) /\ ~Ready
       /\ CreateTravel({t}, d, 0, id)
  \/ \E t \in Teams : ~Ready /\ CancelRecent({t})
  \/ ClockMoves(DebounceTimes, Busy)
  \/ \E u \in UIDs : RunCancelled(u, FALSE)
  \/ \E u \in UIDs : RunDone(u)

SpecDebounce == Init /\ [][NextDebounce]_vars

\* Requests of every kind, valid or not: durations as _parse_duration_seconds
\* returns them (1 second, 24 hours, one second more) or refuses them,
\* intervals inside and just outside 0..30, callers with no, one or two team
\* roles, countdowns with one notify target or with both.
InputDurations == {ParseError, 1, 86400, 86401}
InputIntervals == {-1, 0, 1, 30, 31}
InputTimes == {0, 4, 10}
NextInputs ==
  \/ \E both \in BOOLEAN, d \in InputDurations, g \in Guilds :
       Len(ent) < MaxEntries /\ CreateCountdown(both, d, g, Len(ent) + 1)
  \/ \E matches \in SUBSET Teams, d \in InputDurations, iv \in InputIntervals :
       Len(ent) < MaxEntries /\ CreateTravel(matches, d, iv, Len(ent) + 1)
  \/ ClockMoves(InputTimes, Busy)
  \/ \E u \in UIDs : TravelStartWait(u, TRUE)

SpecInputs == Init /\ [][NextInputs]_vars

\* ----------------------------------------------- write failures and crashes
\* save_json writes a temporary file and renames it over countdowns.json: a
\* write that fails (OSError) leaves the file as it was and raises out of
\* _persist.  The statements before the call have taken effect, those after
\* it are not reached.

\* countdown() with a valid request whose _persist raises: the entry is in
\* _active, the exception leaves the handler before _schedule_countdown.
CountdownWriteFails(d, g, id) ==
  /\ lock = NoHolder
  /\ CountdownVerdict(FALSE, d) = "ok" /\ IsFree(id)
  /\ LET e == CountdownEntry(Len(ent) + 1, id, g, now, d)
     IN /\ ent' = Append(ent, e)
        /\ active' = Put(active, id, e)
        /\ ev' = CreateEvent("countdown", id, e.uid, "write_error",
                              Request(FALSE, {}, d, 0))
  /\ UNCHANGED <<now, lock, rec, store, debounce, groups, timerVars, waitVars, cancelVars,
                 threads, perr, unlocked, noteVars>>

\* travel() with a valid request that passes the debounce and whose _persist
\* raises: the debounce time and _active are set, the group is not joined
\* and nothing is scheduled.
TravelWriteFails(matches, d, iv, id) ==
  /\ lock = NoHolder
  /\ TravelVerdict(matches, d, iv) = "ok" /\ IsFree(id)
  /\ LET team == ResolveMemberTeamRole(matches)
         e == TravelEntry(Len(ent) + 1, id, team, now, d, iv)
         key == <<TeamGuild(team), team>>
     IN /\ ~Debounced(debounce, key, now)
        /\ ent' = Append(ent, e)
        /\ debounce' = Put(debounce, key, now)
        /\ active' = Put(active, id, e)
        /\ ev' = CreateEvent("travel", id, e.uid, "write_error",
                              Request(FALSE, matches, d, iv))
  /\ UNCHANGED <<now, lock, rec, store, groups, timerVars, waitVars, cancelVars, threads,
                 perr, unlocked, noteVars>>

\* cancel_countdown by an administrator for an active id, when the _persist
\* of _cancel_entry raises: the entry has left _active, and the exception
\* leaves the handler before the wait task and the timer are cancelled and
\* before the group is cleaned up.
CancelWriteFails(id) ==
  /\ lock = NoHolder
  /\ id \in DOMAIN active
  /\ active' = Pop(active, id)
  /\ ev' = CancelEvent(id, active[id].uid, "write_error", TRUE)
  /\ UNCHANGED <<now, lock, rec, ent, store, debounce, groups, timerVars, waitVars,
                 cancelVars, threads, perr, unlocked, noteVars>>

\* _send_completion returned, the cleanup had no thread to archive, and the
\* _persist of _remove_entry raises: the entry has left _active, and
\* _run_countdown logs the exception ("Error running countdown") and ends.
RunSentWriteFails(u, ok) ==
  /\ lock = NoHolder
  /\ tpc[u] = "send" /\ ~tcancel[u]
  /\ ~CleanupSuspends(groups, ent[u])
  /\ notified' = [notified EXCEPT ![u] = IF ok THEN @ + 1 ELSE @]
  /\ delivered' = IF ok THEN Deliver(delivered, ent[u]) ELSE delivered
  /\ groups' = CleanupSync(groups, ent[u])
  /\ tpc' = [tpc EXCEPT ![u] = "finished"]
  /\ active' = RemoveEntry(active, ent[u].id)
  /\ unlocked' = unlocked \cup CleanupUnlocked(groups, ent[u])
  /\ ev' = Event("fire", 0, u, "write_error")
  /\ UNCHANGED <<now, lock, rec, ent, store, debounce, tasks, tcancel, trem, waitVars,
                 cancelVars, threads, perr, fired>>

\* The statements of countdown() and of travel() that change the state of an
\* accepted request, in the order of the source.
CountdownStepsEager == <<"register", "schedule", "persist">>
CountdownSteps == <<"register", "persist", "schedule">>
TravelSteps == <<"stamp", "register", "persist", "group", "schedule">>
StepsDone(steps, k) == {steps[i] : i \in 1..k}

\* The process dies in countdown() after the first k of these statements: the
\* state it dies in.
CrashInCountdown(d, g, id, k) ==
  /\ lock = NoHolder
  /\ rec.pc = "done" /\ CountdownVerdict(FALSE, d) = "ok" /\ IsFree(id)
  /\ LET e == CountdownEntry(Len(ent) + 1, id, g, now, d)
         did == StepsDone(CountdownSteps, k)
     IN /\ ent' = Append(ent, e)
        /\ active' = IF "register" \in did THEN Put(active, id, e) ELSE active
        /\ store' = IF "persist" \in did THEN Persist(active') ELSE store
        /\ tasks' = IF "schedule" \in did THEN ScheduleCountdown(tasks, e) ELSE tasks
        /\ tpc' = IF "schedule" \in did THEN [tpc EXCEPT ![e.uid] = "sleep"] ELSE tpc
  /\ rec' = [rec EXCEPT !.pc = "crashed"]
  /\ ev' = Idle
  /\ UNCHANGED <<now, lock, debounce, groups, tcancel, trem, waitVars, cancelVars, threads,
                 perr, unlocked, noteVars>>

\* ... and in travel(), for a request that passes the debounce.
CrashInTravel(matches, d, iv, id, k) ==
  /\ lock = NoHolder
  /\ rec.pc = "done" /\ TravelVerdict(matches, d, iv) = "ok" /\ IsFree(id)
  /\ LET team == ResolveMemberTeamRole(matches)
         e == TravelEntry(Len(ent) + 1, id, team, now, d, iv)
         key == <<TeamGuild(team), team>>
         did == StepsDone(TravelSteps, k)
     IN /\ ~Debounced(debounce, key, now)
        /\ ent' = Append(ent, e)
        /\ debounce' = IF "stamp" \in did THEN Put(debounce, key, now) ELSE debounce
        /\ active' = IF "register" \in did THEN Put(active, id, e) ELSE active
        /\ store' = IF "persist" \in did THEN Persist(active') ELSE store
        /\ groups' = IF "group" \in did /\ SecondsUntilNextIntervalBoundary(now, iv) > 0
                     THEN RegisterIntervalGroup(groups, e) ELSE groups
        /\ tasks' = IF "schedule" \in did THEN ScheduleCountdown(tasks, e) ELSE tasks
        /\ tpc' = IF "schedule" \in did THEN [tpc EXCEPT ![e.uid] = "sleep"] ELSE tpc
  /\ rec' = [rec EXCEPT !.pc = "crashed"]
  /\ ev' = Idle
  /\ UNCHANGED <<now, lock, tcancel, trem, waitVars, cancelVars, threads, perr, unlocked, noteVars>>

\* The process is started again, at once or later: a new Countdown object,
\* and cog_load reads the file the dead process left.
Restart ==
  /\ rec.pc = "crashed"
  /\ \E t \in TimePoints : t >= now /\ now' = t /\ rec' = Recovering(store, t)
  /\ ent' = <<>>
  /\ active' = Empty
  /\ debounce' = Empty
  /\ groups' = Empty
  /\ tasks' = Empty
  /\ tpc' = [u \in UIDs |-> "none"]
  /\ tcancel' = [u \in UIDs |-> FALSE]
  /\ trem' = [u \in UIDs |-> NoCleanup]
  /\ wtasks' = Empty
  /\ wpc' = [u \in UIDs |-> "none"]
  /\ wcancel' = [u \in UIDs |-> FALSE]
  /\ wrem' = [u \in UIDs |-> {}]
  /\ wthread' = [u \in UIDs |-> ThreadNone]
  /\ cpc' = [u \in UIDs |-> "none"]
  /\ crem' = [u \in UIDs |-> NoCleanup]
  /\ fired' = [u \in UIDs |-> 0]
  /\ notified' = [u \in UIDs |-> 0]
  /\ ev' = Idle
  /\ lock' = NoHolder
  /\ UNCHANGED <<store, threads, perr, unlocked, delivered>>

\* The process is running, and cog_load has returned: commands are served.
Alive == rec.pc # "crashed"
Serving == rec.pc = "done"

\* Countdowns and travels without an interval, on a disk that may refuse a
\* write and in a process that may die in the middle of a create.
NextDisk ==
  \/ Restart
  \/ \E d \in Durations, g \in Guilds, id \in IDs :
       /\ Serving /\ Len(ent) < MaxEntries /\ FirstDraw(id)
       /\ CreateCountdown(FALSE, d, g, id)
  \/ \E t \in Teams, d \in Durations, id \in IDs :
       /\ Serving /\ Len(ent) < MaxEntries /\ FirstDraw(id) /\ FirstTeam(t)
       /\ CreateTravel({t}, d, 0, id)
  \/ \E d \in Durations, g \in Guilds, id \in IDs :
       /\ Serving /\ Len(ent) < MaxEntries /\ FirstDraw(id)
       /\ CountdownWriteFails(d, g, id)
  \/ \E t \in Teams, d \in Durations, id \in IDs :
       /\ Serving /\ Len(ent) < MaxEntries /\ FirstDraw(id) /\ FirstTeam(t)
       /\ TravelWriteFails({t}, d, 0, id)
  \/ \E d \in Durations, g \in Guilds, id \in IDs, k \in 0..Len(CountdownSteps) :
       /\ Len(ent) < MaxEntries /\ FirstDraw(id)
       /\ CrashInCountdown(d, g, id, k)
  \/ \E t \in Teams, d \in Durations, id \in IDs, k \in 0..Len(TravelSteps) :
       /\ Len(ent) < MaxEntries /\ FirstDraw(id) /\ FirstTeam(t)
       /\ CrashInTravel({t}, d, 0, id, k)
  \/ \E id \in IDs : Serving /\ CancelById(id, TRUE)
  \/ \E id \in IDs : Serving /\ CancelWriteFails(id)
  \/ \E id \in IDs : Alive /\ RecoverEntry(id)
  \/ Alive /\ RecoverSent(TRUE)
  \/ Alive /\ RecoverFinish
  \/ Alive /\ Tick
  \/ \E u \in UIDs : Alive /\ RunWake(u)
  \/ \E u \in UIDs : Alive /\ RunSent(u, TRUE)
  \/ \E u \in UIDs : Alive /\ RunSentWriteFails(u, TRUE)
  \/ \E u \in UIDs : Alive /\ RunCancelled(u, FALSE)
  \/ \E u \in UIDs : Alive /\ RunDone(u)

SpecDisk == Init /\ [][NextDisk]_vars

\* _seconds_until_next_interval_boundary on its own: called at every second
\* of the first hour and of the hour after 05:00, at the last second of a
\* day and in the first minute of the next day, with every interval that
\* travel() accepts.
BoundaryTimes ==
  (0..3600) \cup (18000..21600) \cup (86399..86460)
BoundaryIntervals == 0..MAX_INTERVAL_MINUTES
InitBoundary ==
  /\ Constructed
  /\ ev = Idle
  /\ now \in BoundaryTimes
  /\ store = Empty
  /\ rec = Recovered(Empty, 0)
BoundaryCall(interval_minutes) ==
  /\ ev = Idle
  /\ ev' = Event("boundary", interval_minutes, 0,
                 SecondsUntilNextIntervalBoundary(now, interval_minutes))
  /\ UNCHANGED <<now, lock, rec, ent, regVars, debounce, groups, timerVars, waitVars,
                 cancelVars, threads, perr, unlocked, noteVars>>
NextBoundary == \E iv \in BoundaryIntervals : BoundaryCall(iv)

SpecBoundary == InitBoundary /\ [][NextBoundary]_vars

\* _parse_duration_seconds on its own: called with every text of up to MaxLen
\* characters.
Inputs == UNION {[1..n -> Chars] : n \in 0..MaxLen}
InitParse ==
  /\ Constructed
  /\ now = 0
  /\ store = Empty
  /\ rec = Recovered(Empty, 0)
  /\ ev \in {Event("duration", duration, 0, 0) : duration \in Inputs}
ParseCall ==
  /\ ev.op = "duration"
  /\ ev' = Event("parse", ev.arg, 0, ParseDurationSeconds(ev.arg))
  /\ UNCHANGED <<now, lock, rec, ent, regVars, debounce, groups, timerVars, waitVars,
                 cancelVars, threads, perr, unlocked, noteVars>>
NextParse == ParseCall

SpecParse == InitParse /\ [][NextParse]_vars

\* The completion messages that are on their way to the platform: the
\* _send_completion of a timer task or of the recovery loop has not returned.
InFlight ==
  {u \in UIDs : tpc[u] = "send"} \cup (IF rec.pc = "send" THEN {rec.sending} ELSE {})

RECURSIVE DeliverAll(_, _)
DeliverAll(dl, us) ==
  IF us = {} THEN dl
  ELSE LET u == CHOOSE x \in us : TRUE
       IN DeliverAll(Deliver(dl, ent[u]), us \ {u})

\* The process dies, at any point of any task.  The memory is lost at the
\* restart; of the messages in flight, the platform delivers those that had
\* reached it (landed).
Crash(landed) ==
  /\ Alive
  /\ landed \subseteq InFlight
  /\ rec' = [rec EXCEPT !.pc = "crashed"]
  /\ notified' = [u \in UIDs |-> IF u \in landed THEN notified[u] + 1 ELSE notified[u]]
  /\ delivered' = DeliverAll(delivered, landed)
  /\ ev' = Idle
  /\ UNCHANGED <<now, lock, ent, regVars, debounce, groups, timerVars, waitVars, cancelVars,
                 threads, perr, unlocked, fired>>

\* The entries created so far, in this run and in the runs before it, as far
\* as they are still pending or were completed.
Created == Len(ent) + Cardinality(DOMAIN delivered \ {RecordKey(ent[u]) : u \in 1..Len(ent)})

\* Countdowns in a process that may die at any point and is started again:
\* MaxEntries countdowns in all, and no further crash once a completion
\* message has been delivered MaxDeliveries times.
NextCrash ==
  \/ Restart
  \/ \E landed \in SUBSET UIDs :
       /\ \A k \in DOMAIN delivered : delivered[k] < MaxDeliveries
       /\ Crash(landed)
  \/ \E d \in Durations, g \in Guilds, id \in IDs :
       /\ Serving /\ Created < MaxEntries /\ FirstDraw(id)
       /\ CreateCountdown(FALSE, d, g, id)
  \/ \E id \in IDs : Alive /\ RecoverEntry(id)
  \/ Alive /\ RecoverSent(TRUE)
  \/ Alive /\ RecoverFinish
  \/ Alive /\ Tick
  \/ \E u \in UIDs : Alive /\ RunWake(u)
  \/ \E u \in UIDs : Alive /\ RunSent(u, TRUE)
  \/ \E u \in UIDs : Alive /\ RunDone(u)

SpecCrash == Init /\ [][NextCrash]_vars

\* What happens without a request: the clock moves, and the event loop runs
\* the timer tasks, the wait tasks and the cleanups of the cancel handlers.
Steps == Tick \/ Timers \/ Waits \/ Cleanups

\* Travel requests for the boundary at second 60 and cancels by an
\* administrator, on a platform that may fail, run to the end.  The clock
\* goes on, asyncio runs every task that is ready, a sleep returns when its
\* time has come and every call to the platform returns: a step that can be
\* taken is taken in the end.
NextLive ==
  \/ \E t \in Teams, d \in Durations, id \in IDs :
       /\ Len(ent) < MaxEntries /\ id = Len(ent) + 1 /\ FirstTeam(t)
       /\ SecondsUntilNextIntervalBoundary(now, 1) > 0
       /\ CreateTravel({t}, d, 1, id)
  \/ \E id \in IDs : CancelById(id, TRUE)
  \/ Steps

SpecLive == Init /\ [][NextLive]_vars /\ WF_vars(Steps)

\* What happens without a request in a process that may have died: it is
\* started again, cog_load recovers the file, and the event loop runs.  Every
\* call to the platform succeeds.
StepsRestart ==
  \/ Restart
  \/ \E id \in IDs : Alive /\ RecoverEntry(id)
  \/ Alive /\ RecoverSent(TRUE)
  \/ Alive /\ RecoverFinish
  \/ Alive /\ Tick
  \/ \E u \in UIDs : Alive /\ RunWake(u)
  \/ \E u \in UIDs : Alive /\ RunSent(u, TRUE)
  \/ \E u \in UIDs : Alive /\ RunArchived(u, TRUE)
  \/ \E u \in UIDs, m \in MembersOf(Teams) : Alive /\ RunRemoved(u, m, TRUE)
  \/ \E u \in UIDs : Alive /\ RunDone(u)
  \/ \E u \in UIDs : Alive /\ TravelStartWait(u, TRUE)
  \/ \E u \in UIDs : Alive /\ WaitWake(u, TRUE)
  \/ \E u \in UIDs : Alive /\ WaitCreate(u, "created")
  \/ \E u \in UIDs, m \in MembersOf(Teams) : Alive /\ WaitAddMember(u, m, TRUE)
  \/ \E u \in UIDs : Alive /\ WaitDone(u)

\* Travel requests for the boundary at second 60 in a process that may die at
\* any point, before a completion message has been delivered MaxDeliveries
\* times.  A dead process is started again, and what can run does run.
NextRestart ==
  \/ \E t \in Teams, d \in Durations, id \in IDs :
       /\ Serving /\ Created < MaxEntries /\ id = Len(ent) + 1 /\ FirstTeam(t)
       /\ SecondsUntilNextIntervalBoundary(now, 1) > 0
       /\ CreateTravel({t}, d, 1, id)
  \/ \E landed \in SUBSET UIDs :
       /\ \A k \in DOMAIN delivered : delivered[k] < MaxDeliveries
       /\ Crash(landed)
  \/ StepsRestart

SpecRestart == Init /\ [][NextRestart]_vars /\ WF_vars(StepsRestart)

\* The tasks of countdowns on a disk that may refuse a write.
StepsWrites ==
  \/ Tick
  \/ \E u \in UIDs : RunWake(u)
  \/ \E u \in UIDs, ok \in BOOLEAN : RunSent(u, ok)
  \/ \E u \in UIDs, ok \in BOOLEAN : RunSentWriteFails(u, ok)
  \/ \E u \in UIDs, landed \in BOOLEAN : RunCancelled(u, landed)
  \/ \E u \in UIDs : RunDone(u)

\* Countdowns created and cancelled by an administrator on a disk that may
\* refuse a write, run to the end: the clock goes on and the event loop runs
\* every task that is ready.
NextWrites ==
  \/ \E d \in Durations, g \in Guilds, id \in IDs :
       /\ Len(ent) < MaxEntries /\ FirstDraw(id)
       /\ CreateCountdown(FALSE, d, g, id)
  \/ \E d \in Durations, g \in Guilds, id \in IDs :
       /\ Len(ent) < MaxEntries /\ FirstDraw(id)
       /\ CountdownWriteFails(d, g, id)
  \/ \E id \in IDs : CancelById(id, TRUE)
  \/ \E id \in IDs : CancelWriteFails(id)
  \/ StepsWrites

SpecWrites == Init /\ [][NextWrites]_vars /\ WF_vars(StepsWrites)

\* ------------------------------------------------------------------ claims
\* C1: whatever the interleaving of a timer's expiry and a cancel of its entry,
\* at most one completion message is delivered for the entry, and a timer
\* whose presence check finds the id absent ends at once: it sends nothing
\* and leaves the registry, the store and the groups as they are.
C1_FireCancelRace ==
  /\ [](\A u \in UIDs : notified[u] <= 1)
  /\ [][\A u \in UIDs :
         (tpc[u] = "sleep" /\ ~tcancel[u] /\ tpc'[u] # "sleep"
            /\ ent[u].id \notin DOMAIN active)
         => /\ tpc'[u] = "finished"
            /\ UNCHANGED <<active, store, groups, fired, notified, threads>>]_vars
\* An entry was cancelled, its timer then expired all the same and found the
\* id absent: nothing was sent.
C1_Witness ==
  \E u \in UIDs : /\ ev = Event("fire", 0, u, "absent")
                   /\ cpc[u] = "done" /\ notified[u] = 0 /\ fired[u] = 0

\* C2: once recovery has finished, every stored entry that was due at the
\* restart (end <= now) has had _send_completion called for it exactly once,
\* has no timer, and is neither in the registry nor in the file.
C2_DueFiredOnce ==
  rec.pc = "done" =>
    \A id \in DOMAIN rec.stored :
      rec.stored[id].end <= rec.now =>
        /\ id \notin DOMAIN active /\ id \notin DOMAIN store
        /\ Cardinality({u \in 1..Len(ent) : ent[u].id = id}) = 1
        /\ \A u \in 1..Len(ent) :
             ent[u].id = id => /\ fired[u] = 1 /\ notified[u] <= 1
                               /\ tpc[u] = "none"
                               /\ \A k \in DOMAIN tasks : tasks[k] # u
\* Recovery is over; an entry that ended at the very second of the restart was
\* completed, next to one that was still pending.
C2_Witness ==
  /\ rec.pc = "done"
  /\ \E id \in DOMAIN rec.stored, u \in 1..Len(ent) :
       /\ rec.stored[id].end = rec.now /\ ent[u].id = id
       /\ fired[u] = 1 /\ notified[u] = 1
  /\ active # Empty

\* C3: the step that ends recovery leaves the registry holding exactly the
\* stored entries with end > now, the file holding exactly those records,
\* written by the one rewrite of the recovery, and one sleeping timer, the
\* one registered in _tasks, for each of them.
C3_RecoverBaseline ==
  [][(rec.pc # "done" /\ rec'.pc = "done") =>
       LET pending == {id \in DOMAIN rec.stored : rec.stored[id].end > rec.now}
       IN /\ DOMAIN active' = pending
          /\ \A id \in pending : ToDict(active'[id]) = rec.stored[id]
          /\ store' = [id \in pending |-> rec.stored[id]]
          /\ rec'.writes = 1
          /\ DOMAIN tasks' = pending
          /\ \A id \in pending :
               /\ {u \in 1..Len(ent') : ent'[u].id = id /\ tpc'[u] # "none"}
                    = {tasks'[id]}
               /\ tpc'[tasks'[id]] = "sleep" /\ ~tcancel'[tasks'[id]]
               /\ ent'[tasks'[id]] = active'[id]]_vars
\* Recovery has just ended on a file of two records, one due and one pending:
\* the pending one is registered, stored and has its timer.
C3_Witness ==
  /\ rec.pc = "done" /\ now = rec.now /\ rec.writes = 1
  /\ Cardinality(DOMAIN rec.stored) = 2
  /\ \E id \in DOMAIN rec.stored :
       /\ DOMAIN active = {id} /\ DOMAIN store = {id} /\ DOMAIN tasks = {id}
       /\ tpc[tasks[id]] = "sleep"

\* C4: a cancel_countdown by an administrator for an id that is not in the
\* registry answers "not found" and leaves the registry, the file, the timers,
\* the wait tasks, the groups and the threads as they are.
C4_CancelIdempotent ==
  [][\A id \in IDs :
       (ev'.op = "cancel" /\ ev'.admin /\ ev'.arg = id /\ id \notin DOMAIN active)
       => /\ ev'.out = "notfound"
          /\ UNCHANGED <<active, store, tasks, tpc, tcancel, trem, wtasks, wpc, wcancel,
                         groups, threads, cpc, crem, fired, notified>>]_vars
\* The second cancel of an id, after the first one removed its entry and
\* while the entry's timer task is still registered: "not found".
C4_Witness ==
  \E id \in IDs, u \in UIDs :
    /\ ev = CancelEvent(id, 0, "notfound", TRUE)
    /\ cpc[u] = "done" /\ ent[u].id = id /\ id \notin DOMAIN active

\* An entry is known while it is the registry's entry for its id, or while its
\* timer task is running and has not been cancelled.
Known(u) ==
  /\ u \in 1..Len(ent)
  /\ \/ ent[u].id \in DOMAIN active /\ active[ent[u].id].uid = u
     \/ Live(tpc[u]) /\ ~tcancel[u]
\* C5: two entries known at the same time never have the same id.
C5_DistinctIds ==
  \A u, v \in UIDs : (u # v /\ Known(u) /\ Known(v)) => ent[u].id # ent[v].id

\* C6: between the claim of a group's thread (thread_id set to "pending") and
\* its outcome there is one creating task, and no window ever gets a second
\* thread: per window, creating tasks plus threads made are at most one.
C6_OneCreation ==
  \A k \in {KeyOf(ent[u]) : u \in 1..Len(ent)} :
    Cardinality({u \in 1..Len(ent) : wpc[u] = "create" /\ KeyOf(ent[u]) = k})
      + Cardinality({i \in 1..Len(threads) : threads[i].key = k}) <= 1
\* Two entries of one group are at the boundary: one task is creating the
\* thread, the other found the creation claimed and went on without.
C6_Witness ==
  \E u, v \in 1..Len(ent) :
    /\ u # v /\ KeyOf(ent[u]) = KeyOf(ent[v])
    /\ wpc[u] = "create" /\ wpc[v] \in {"finished", "done"}
    /\ KeyOf(ent[u]) \in DOMAIN groups
    /\ groups[KeyOf(ent[u])].thread = ThreadPending
    /\ groups[KeyOf(ent[u])].entries = {ent[u].id, ent[v].id}

\* C7: two travel entries of different teams in one window, both registered
\* in the group and still active, no platform call having failed: once the
\* boundary has passed and the wait tasks of the window have run, the group
\* has its thread and member_ids holds every member of every team of the group.
C7_TwoPartySpace ==
  \A u, v \in 1..Len(ent) :
    LET k == KeyOf(ent[u])
    IN (/\ u # v /\ ent[u].kind = "travel" /\ ent[v].kind = "travel"
        /\ ent[u].team # ent[v].team /\ KeyOf(ent[v]) = k
        /\ k \in DOMAIN groups
        /\ {ent[u].id, ent[v].id} \subseteq groups[k].entries
        /\ ent[u].id \in DOMAIN active /\ active[ent[u].id].uid = u
        /\ ent[v].id \in DOMAIN active /\ active[ent[v].id].uid = v
        /\ ~perr /\ now >= ent[u].start
        /\ \A w \in 1..Len(ent) :
             (ent[w].kind = "travel" /\ KeyOf(ent[w]) = k)
             => wpc[w] \in {"finished", "done"})
       => /\ groups[k].thread > 0
          /\ MembersOf(groups[k].teams) \subseteq GroupMembers(groups[k])

\* C8: a group whose last entry has left is dropped: it stays in the map only
\* while the cleanup that emptied it is at work on its thread; and when a
\* group with a thread is dropped, the thread is archived and nobody of
\* member_ids is a member of it any more.
C8_LeaveTearsDown ==
  /\ [](\A k \in DOMAIN groups :
          groups[k].entries = {} =>
            \E u \in 1..Len(ent) :
              /\ KeyOf(ent[u]) = k
              /\ \/ tpc[u] \in {"archive", "unmember"} /\ ~tcancel[u]
                 \/ cpc[u] \in {"archive", "unmember"})
  /\ [][\A k \in DOMAIN groups :
         (k \notin DOMAIN groups' /\ groups[k].thread > 0)
         => /\ threads'[groups[k].thread].archived
            /\ threads'[groups[k].thread].members
                 \cap threads'[groups[k].thread].mids = {}]_vars
\* A group that had its thread, with the members of both teams, has been
\* dropped: the thread is archived and they have all been removed.
C8_Witness ==
  \E i \in 1..Len(threads) :
    /\ threads[i].key \notin DOMAIN groups
    /\ threads[i].archived /\ threads[i].mids = MembersOf(Teams)
    /\ threads[i].members = {}

\* C9: the self-service cancel removes the entry it selected exactly when
\* the entry is at most 180 seconds old; for an older one it answers
\* "too late" and nothing changes, the entry staying active with its timer.
C9_GraceWindow ==
  [][ev'.op = "recent" =>
       /\ ev'.out = "cancelled" =>
            \E id \in DOMAIN active :
              /\ active[id].uid = ev'.uid /\ now - active[id].created <= 180
              /\ id \notin DOMAIN active'
       /\ ev'.out = "too_late" =>
            /\ UNCHANGED <<active, store, tasks, tpc, tcancel, trem, wtasks, wpc,
                           wcancel, groups, threads, cpc, crem, fired, notified>>
            /\ \E id \in DOMAIN active :
                 /\ active[id].kind = "travel" /\ active[id].team = ev'.arg
                 /\ now - active[id].created > 180
       /\ \A id \in DOMAIN active :
            (/\ active[id].kind = "travel" /\ active[id].team = ev'.arg
             /\ \A j \in DOMAIN active :
                  (active[j].kind = "travel" /\ active[j].team = ev'.arg)
                  => active[j].created <= active[id].created)
            => ev'.out = IF now - active[id].created > 180 THEN "too_late"
                         ELSE "cancelled"]_vars
\* A team asks to cancel its travel 184 seconds after it was made: refused,
\* the entry is still active and its timer still asleep.
C9_Witness ==
  /\ ev.op = "recent" /\ ev.out = "too_late"
  /\ \E id \in DOMAIN active :
       /\ active[id].kind = "travel" /\ active[id].team = ev.arg
       /\ now - active[id].created > 180
       /\ id \in DOMAIN tasks /\ tpc[tasks[id]] = "sleep" /\ ~tcancel[tasks[id]]

\* C10: a self-service cancel removes at most one entry of the registry and
\* changes none; the one removed is a travel entry of the requester's team and
\* no active travel entry of that team was created later; a requester with no
\* team role or with several changes nothing.
C10_OwnMostRecent ==
  [][ev'.op = "recent" =>
       /\ Cardinality(DOMAIN active \ DOMAIN active') <= 1
       /\ \A id \in DOMAIN active' : id \in DOMAIN active /\ active'[id] = active[id]
       /\ \A id \in DOMAIN active \ DOMAIN active' :
            /\ active[id].kind = "travel" /\ active[id].team = ev'.arg
            /\ active[id].uid = ev'.uid
            /\ \A j \in DOMAIN active :
                 (active[j].kind = "travel" /\ active[j].team = ev'.arg)
                 => active[j].created <= active[id].created
       /\ ev'.out \in {"no_team", "multi_team"} =>
            UNCHANGED <<now, ent, active, store, debounce, groups, tasks, tpc, tcancel,
                        trem, wtasks, wpc, wcancel, wrem, wthread, cpc, crem, threads,
                        perr, fired, notified, rec>>]_vars
\* A team with two active travel entries has just cancelled: the later one is
\* gone, the earlier one is still active.
C10_Witness ==
  /\ ev.op = "recent" /\ ev.out = "cancelled"
  /\ \E id \in DOMAIN active :
       /\ active[id].kind = "travel" /\ active[id].team = ev.arg
       /\ active[id].created < ent[ev.uid].created
  /\ ent[ev.uid].team = ev.arg
  /\ \A id \in DOMAIN active : active[id].uid # ev.uid

\* C11: a cancel_countdown with an id from a caller without the admin role is
\* refused, whatever the id (that of an active entry or not), and leaves the
\* registry, the file, the timers, the wait tasks, the groups and everything
\* else as they are.
C11_NonAdminRefused ==
  [][(ev'.op = "cancel" /\ ~ev'.admin)
       => /\ ev'.out = "refused"
          /\ UNCHANGED <<now, ent, active, store, debounce, groups, tasks, tpc, tcancel,
                         trem, wtasks, wpc, wcancel, wrem, wthread, cpc, crem, threads,
                         perr, fired, notified, rec>>]_vars
\* A caller without the admin role has just asked to cancel an active entry
\* by its id: refused, the entry is still active and its timer asleep.
C11_Witness ==
  /\ ev.op = "cancel" /\ ~ev.admin /\ ev.out = "refused"
  /\ ev.arg \in DOMAIN active /\ ev.arg \in DOMAIN store
  /\ ev.arg \in DOMAIN tasks /\ tpc[tasks[ev.arg]] = "sleep" /\ ~tcancel[tasks[ev.arg]]

\* C12: a valid travel request is rejected by the debounce exactly when an
\* accepted request of the same (guild, team role) was made less than 5
\* seconds before it; hence two accepted requests of one key are at least 5
\* seconds apart, and a rejected request does not count.
C12_Debounce ==
  /\ [](\A u, v \in 1..Len(ent) :
          (/\ u # v /\ ent[u].kind = "travel" /\ ent[v].kind = "travel"
           /\ ent[u].team = ent[v].team /\ ent[u].guild = ent[v].guild
           /\ ent[u].created <= ent[v].created)
          => ent[v].created - ent[u].created >= 5)
  /\ [][(ev'.op = "travel" /\ ev'.out \in {"created", "throttled"})
         => LET team == CHOOSE t \in ev'.req.matches : TRUE
            IN (ev'.out = "throttled")
                 <=> \E u \in 1..Len(ent) :
                       /\ ent[u].kind = "travel" /\ ent[u].team = team
                       /\ ent[u].guild = TeamGuild(team)
                       /\ now - ent[u].created < 5]_vars
\* A team's second travel was accepted exactly 5 seconds after its first
\* (and 3 seconds after a request of the team could have been rejected).
C12_Witness ==
  /\ ev.op = "travel" /\ ev.out = "created" /\ now = 5
  /\ \E u \in 1..Len(ent) :
       /\ u # ev.uid /\ ent[u].team = ent[ev.uid].team
       /\ ent[ev.uid].created - ent[u].created = 5

\* C13: a travel request rejected by the debounce changes nothing: no entry
\* is made or registered, the file is not rewritten, no timer and no wait
\* task is started, no group is made or changed, and the debounce time of
\* the key stays what it was.
C13_ThrottledNoChange ==
  [][(ev'.op = "travel" /\ ev'.out = "throttled")
       => UNCHANGED <<now, ent, active, store, debounce, groups, tasks, tpc, tcancel,
                      trem, wtasks, wpc, wcancel, wrem, wthread, cpc, crem, threads,
                      perr, fired, notified, rec>>]_vars
\* A team whose travel waits in a group for the next boundary asked again,
\* with an interval, within the second of its accepted request: rejected.
C13_Witness ==
  /\ ev.op = "travel" /\ ev.out = "throttled" /\ ev.req.iv = 1
  /\ \E t \in ev.req.matches :
       /\ <<TeamGuild(t), t>> \in DOMAIN debounce
       /\ now - debounce[<<TeamGuild(t), t>>] < 5
       /\ \E k \in DOMAIN groups : t \in groups[k].teams

\* C14: whenever a timer is started for an entry, in countdown(), in travel()
\* or at the end of recovery, the file holds that entry; this is so in the
\* state a process dies in when it dies in the middle of a create, and when
\* the write of a create fails.
C14_PersistBeforeSchedule ==
  [][\A u \in UIDs :
       (tpc[u] = "none" /\ tpc'[u] # "none")
       => /\ u <= Len(ent')
          /\ ent'[u].id \in DOMAIN store'
          /\ store'[ent'[u].id] = ToDict(ent'[u])]_vars
\* The process died in a create after the write and before the timer was
\* started: the entry is in the file and has no timer.
C14_Witness ==
  /\ rec.pc = "crashed" /\ ent # <<>>
  /\ ent[Len(ent)].id \in DOMAIN store
  /\ store[ent[Len(ent)].id] = ToDict(ent[Len(ent)])
  /\ tpc[Len(ent)] = "none" /\ ent[Len(ent)].id \notin DOMAIN tasks

\* C15: once the process serves commands (recovery is over), the file holds
\* exactly the entries of the registry after every step, whatever creates,
\* expiries, cancels and restarts came before; and every step that rewrites
\* the file writes the registry as that step leaves it.
C15_StoreMirrorsRegistry ==
  /\ [](rec.pc = "done" => store = Persist(active))
  /\ [][store' # store => store' = Persist(active')]_vars
\* An entry was created and then cancelled, another one is active: the file
\* holds that one and nothing else.
C15_Witness ==
  /\ rec.pc = "done" /\ store = Persist(active) /\ Cardinality(DOMAIN store) = 1
  /\ \E u \in 1..Len(ent) : cpc[u] = "done" /\ ent[u].id \notin DOMAIN store

\* C16: a create, a cancel or the removal at the end of an expiry whose write
\* to the file fails leaves the registry as it was before the operation: the
\* new entry is not in it, the entry to cancel or to remove is still in it.
C16_FailedWriteNotCommitted ==
  [][ev'.out = "write_error" => active' = active /\ store' = store]_vars
\* The write of a cancel has just failed for an entry whose timer is asleep.
C16_Witness ==
  /\ ev.op = "cancel" /\ ev.out = "write_error"
  /\ ev.arg \in DOMAIN store /\ tpc[ev.uid] = "sleep" /\ ~tcancel[ev.uid]

\* What the commands must refuse: both notify targets, a malformed duration,
\* a duration outside 1..86400 seconds, an interval outside 0..30 minutes.
InvalidRequest(op, req) ==
  \/ op = "countdown" /\ req.both
  \/ op = "travel" /\ (req.iv < 0 \/ req.iv > 30)
  \/ req.d = ParseError
  \/ req.d <= 0
  \/ req.d > 86400
\* C17: a countdown or travel request that fails validation is answered with
\* the validation error and changes nothing: no entry, no write to the file,
\* no timer, no wait task, no group, no debounce time.
C17_InvalidNoChange ==
  [][(ev'.op \in {"countdown", "travel"} /\ InvalidRequest(ev'.op, ev'.req))
       => /\ ev'.out \in {"invalid_target", "invalid_duration", "out_of_range",
                          "invalid_interval"}
          /\ UNCHANGED <<now, ent, active, store, debounce, groups, tasks, tpc, tcancel,
                         trem, wtasks, wpc, wcancel, wrem, wthread, cpc, crem, threads,
                         perr, fired, notified, rec>>]_vars
\* A member of one team has just asked for a travel of 24 hours with an
\* interval of 31 minutes, while another entry is active: refused.
C17_Witness ==
  /\ ev.op = "travel" /\ ev.out = "invalid_interval"
  /\ ev.req.iv = 31 /\ ev.req.d = 86400 /\ Cardinality(ev.req.matches) = 1
  /\ active # Empty

\* C18: every entry of the registry ends after it starts and ends at most
\* 86400 seconds after it was created.
C18_EntryBounds ==
  \A id \in DOMAIN active :
    /\ active[id].end > active[id].start
    /\ active[id].end - active[id].created <= 86400
\* A travel of 24 hours with an interval is in the registry.
C18_Witness ==
  \E id \in DOMAIN active :
    /\ active[id].kind = "travel" /\ active[id].end - active[id].start = 86400
    /\ active[id].start > active[id].created

\* C19: every group in the map has an entry in entry_ids: a group whose last
\* entry has left is not in the map any more, not even while its thread is
\* being archived.
C19_NoEmptyGroup ==
  \A k \in DOMAIN groups : groups[k].entries # {}

\* C20: a new group has no thread; afterwards thread_id only goes from None to
\* "pending", and from "pending" to the id of a thread or back to None; once
\* it is the id of a thread it stays that id as long as the group exists.
C20_SpaceStateMoves ==
  [][\A k \in DOMAIN groups' :
       IF k \notin DOMAIN groups THEN groups'[k].thread = 0
       ELSE \/ groups'[k].thread = groups[k].thread
            \/ groups[k].thread = 0 /\ groups'[k].thread = -1
            \/ groups[k].thread = -1 /\ groups'[k].thread > 0
            \/ groups[k].thread = -1 /\ groups'[k].thread = 0]_vars
\* A group has its thread after a first attempt to create one had failed and
\* thread_id had gone back to None.
C20_Witness ==
  /\ perr /\ Len(threads) = 1
  /\ \E k \in DOMAIN groups : groups[k].thread = 1 /\ threads[1].key = k

\* C21: when a task that claimed the creation of a group's thread ends without
\* a thread (the parent channel could not be fetched, or create_thread
\* raised), the group's thread_id is None again and nobody is left to be added.
C21_FailedCreationReverts ==
  [][\A u \in 1..Len(ent) :
       (/\ wpc[u] = "create" /\ ~wcancel[u] /\ wpc'[u] = "finished"
        /\ threads' = threads
        /\ KeyOf(ent[u]) \in DOMAIN groups)
       => /\ groups'[KeyOf(ent[u])].thread = ThreadNone
          /\ wrem' = wrem]_vars

\* The teams that have an entry in the group of window k: the team of every
\* active entry of that window whose id is in the group's entry_ids.
Parties(gs, k) ==
  {ent[u].team : u \in {v \in 1..Len(ent) :
                          /\ KeyOf(ent[v]) = k /\ ent[v].id \in gs[k].entries
                          /\ ent[v].id \in DOMAIN active
                          /\ active[ent[v].id].uid = v}}
\* C22: a task goes on to create a group's thread only when entries of at
\* least two different teams are in the group at that moment.
C22_NoSpaceForOneParty ==
  [][\A u \in 1..Len(ent) :
       (wpc[u] # "create" /\ wpc'[u] = "create")
       => Cardinality(Parties(groups, KeyOf(ent[u]))) >= 2]_vars

\* C30: in every group, team_role_ids is the set of the teams of the entries
\* that are in entry_ids: a team whose last entry has left is not in it.
C30_PartiesOfEntries ==
  \A k \in DOMAIN groups : groups[k].teams = Parties(groups, k)

\* C23: no field of the interval groups (the map itself, team_role_ids,
\* entry_ids, member_ids, thread_id) is ever written by a statement that is
\* not inside `async with self._lock`.
C23_MutationsUnderLock ==
  unlocked = {}

\* C24: a completion message is delivered for an entry only when the clock
\* has reached the entry's end_ts; an entry keeps its end_ts as long as it
\* exists, every record written to the file carries the end_ts of its entry,
\* and the entry that recovery makes of a record has the record's end_ts.
C24_DeadlineKept ==
  /\ [](\A id \in DOMAIN active : active[id] = ent[active[id].uid])
  /\ [][\A u \in UIDs :
         notified'[u] > notified[u] => (u \in 1..Len(ent) /\ now >= ent[u].end)]_vars
  /\ [][\A u \in 1..Len(ent) : u <= Len(ent') => ent'[u] = ent[u]]_vars
  /\ [][\A id \in DOMAIN store' :
         (id \notin DOMAIN store \/ store'[id] # store[id])
         => (id \in DOMAIN active' /\ store'[id].end = active'[id].end)]_vars
  /\ [][\A id \in IDs :
         (rec.pc = "load" /\ id \in rec.todo /\ id \notin rec'.todo)
         => (/\ rec.stored = store /\ Len(ent') = Len(ent) + 1
             /\ ent'[Len(ent')].id = id
             /\ ent'[Len(ent')].end = store[id].end)]_vars
\* After a restart an entry that was still pending then has been completed by
\* its timer, not before its end.
C24_Witness ==
  \E u \in 1..Len(ent) :
    /\ rec.pc = "done" /\ ent[u].id \in DOMAIN rec.stored
    /\ ToDict(ent[u]) = rec.stored[ent[u].id]
    /\ ent[u].created < rec.now /\ rec.now < ent[u].end
    /\ notified[u] = 1 /\ now >= ent[u].end

\* C25: once a cancel has removed an entry, _send_completion is not called
\* for it any more; and a timer that has passed its presence check and is
\* sending the completion message ends that send with the platform's answer,
\* never with the CancelledError of a cancel.
C25_CooperativeCancel ==
  /\ [][\A u \in UIDs : cpc[u] # "none" => fired'[u] = fired[u]]_vars
  /\ [][\A u \in UIDs : (tpc[u] = "send" /\ tpc'[u] # "send") => ~tcancel[u]]_vars

\* C26: when a cancel (by id, or "recent") has answered "cancelled" for an
\* entry, the entry's id is neither in the registry nor in the file nor in
\* the entry_ids of any group, and neither the entry's timer task nor its
\* wait task is still running without a cancellation on its way.
C26_CancelRemovesAll ==
  [][(ev'.op \in {"cancel", "recent"} /\ ev'.out = "cancelled") =>
       LET u == ev'.uid
           id == ent[u].id
       IN /\ id \notin DOMAIN active' /\ id \notin DOMAIN store'
          /\ \A k \in DOMAIN groups' : id \notin groups'[k].entries
          /\ ~(Live(tpc'[u]) /\ ~tcancel'[u])
          /\ ~(WLive(wpc'[u]) /\ ~wcancel'[u])]_vars

\* C27: _send_completion is called at most once for an entry; when the send
\* of a timer has failed, the timer goes on as after a send that succeeded:
\* the entry's id leaves the entry_ids of its group at once, and when the
\* timer ends the id is neither in the registry nor in the file.
C27_SendFailureSwallowed ==
  /\ [](\A u \in UIDs : fired[u] <= 1)
  /\ [][\A u \in 1..Len(ent) :
         (/\ tpc[u] = "send" /\ ~tcancel[u] /\ tpc'[u] # "send"
          /\ notified'[u] = notified[u])
         => /\ tpc'[u] \in {"archive", "finished"}
            /\ KeyOf(ent[u]) \in DOMAIN groups'
                 => ent[u].id \notin groups'[KeyOf(ent[u])].entries]_vars
  /\ [][\A u \in 1..Len(ent) :
         (Live(tpc[u]) /\ tpc[u] # "sleep" /\ ~tcancel[u] /\ tpc'[u] = "finished")
         => (ent[u].id \notin DOMAIN active' /\ ent[u].id \notin DOMAIN store')]_vars
\* The completion message of a travel entry of a group could not be sent: the
\* timer has ended all the same, the entry and its group are gone.
C27_Witness ==
  \E u \in 1..Len(ent) :
    /\ ent[u].kind = "travel" /\ ent[u].start > ent[u].created
    /\ fired[u] = 1 /\ notified[u] = 0 /\ tpc[u] = "done" /\ cpc[u] = "none"
    /\ ent[u].id \notin DOMAIN active /\ KeyOf(ent[u]) \notin DOMAIN groups

\* C28: _seconds_until_next_interval_boundary returns 0 for interval 0; for an
\* interval of 1..30 minutes and the time of day s in seconds it returns w
\* with 0 <= w < interval*60, w = 0 exactly when s is a multiple of
\* interval*60, and w = interval*60 - (s mod interval*60) otherwise; 05:27:00
\* with 15 gives 180 and 05:30:00 with 15 gives 0.
C28_WaitUntilBoundary ==
  ev.op = "boundary" =>
    LET interval == ev.arg
        s == now % 86400
        w == ev.out
    IN /\ interval = 0 => w = 0
       /\ interval \in 1..30 =>
            /\ 0 <= w /\ w < interval * 60
            /\ (w = 0) <=> (s % (interval * 60) = 0)
            /\ w # 0 => w = interval * 60 - (s % (interval * 60))
       /\ (s = 5 * 3600 + 27 * 60 /\ interval = 15) => w = 180
       /\ (s = 5 * 3600 + 30 * 60 /\ interval = 15) => w = 0
\* The call at 05:27:00 with an interval of 15 minutes has returned 180.
C28_Witness ==
  now = 5 * 3600 + 27 * 60 /\ ev = Event("boundary", 15, 0, 180)

\* A text is a sequence of tokens when it is empty or starts with one or more
\* digits and a unit letter h, m or s, followed by a sequence of tokens; the
\* seconds such a text stands for.
RECURSIVE IsTokens(_)
IsTokens(c) ==
  \/ c = <<>>
  \/ \E k \in 2..Len(c) :
       /\ c[k] \in {"h", "m", "s"}
       /\ \A j \in 1..(k - 1) : c[j] \in Digits
       /\ IsTokens(SubSeq(c, k + 1, Len(c)))
RECURSIVE TokenSeconds(_)
TokenSeconds(c) ==
  IF c = <<>> THEN 0
  ELSE LET k == CHOOSE i \in 2..Len(c) : c[i] \notin Digits
       IN IntOf(c, 1, k - 1) * (CASE c[k] = "h" -> 3600 [] c[k] = "m" -> 60 [] c[k] = "s" -> 1)
          + TokenSeconds(SubSeq(c, k + 1, Len(c)))
\* The text without its spaces, an upper-case H read as h.
Squeezed(c) ==
  LET RECURSIVE Sq(_)
      Sq(x) == IF x = <<>> THEN <<>>
               ELSE IF Head(x) = " " THEN Sq(Tail(x))
               ELSE <<IF Head(x) = "H" THEN "h" ELSE Head(x)>> \o Sq(Tail(x))
  IN Sq(c)

\* C29 as stated: a duration is accepted exactly when the text as typed is a
\* sequence of (integer)(unit) tokens, a space breaking it, with a total
\* above 0, and the result is the total.
C29_ParseAsTyped ==
  ev.op = "parse" =>
    /\ (ev.out # ParseError) <=> (IsTokens(ev.arg) /\ TokenSeconds(ev.arg) > 0)
    /\ ev.out # ParseError => ev.out = TokenSeconds(ev.arg)
\* C29, amended: a duration is accepted exactly when the text, once its
\* spaces are removed and its letters are lower-cased, is a sequence of
\* (integer)(unit) tokens with a total above 0; the result is that total;
\* "1h30m" gives 5400, "45s" gives 45, "1h 30" and "0s" are refused.
C29_ParseDuration ==
  ev.op = "parse" =>
    LET c == Squeezed(ev.arg)
    IN /\ (ev.out # ParseError) <=> (IsTokens(c) /\ TokenSeconds(c) > 0)
       /\ ev.out # ParseError => ev.out = TokenSeconds(c)
       /\ ev.arg = <<"1", "h", "3", "0", "m">> => ev.out = 5400
       /\ ev.arg = <<"4", "5", "s">> => ev.out = 45
       /\ ev.arg = <<"1", "h", " ", "3", "0">> => ev.out = ParseError
       /\ ev.arg = <<"0", "s">> => ev.out = ParseError
\* "1h 3m", with a space between the tokens, has been parsed as 3780 seconds.
C29_Witness ==
  ev = Event("parse", <<"1", "h", " ", "3", "m">>, 0, 3780)

\* C39: a timer task acts on its own entry only: its done callback leaves
\* the handle of every other task in _tasks, it calls _send_completion only
\* while its own entry is the registry's entry for the id, and no step of it
\* removes another entry from the registry.
C39_TimerOwnEntry ==
  /\ [][\A u \in UIDs :
         (tpc[u] = "finished" /\ tpc'[u] = "done")
         => \A id \in DOMAIN tasks :
              tasks[id] # u => (id \in DOMAIN tasks' /\ tasks'[id] = tasks[id])]_vars
  /\ [][\A u \in UIDs :
         (tpc[u] = "sleep" /\ tpc'[u] = "send") => active[ent[u].id].uid = u]_vars
  /\ [][\A u \in UIDs :
         (Live(tpc[u]) /\ tpc'[u] # tpc[u])
         => \A id \in DOMAIN active :
              active[id].uid # u => (id \in DOMAIN active' /\ active'[id] = active[id])]_vars

\* C38: over the runs of the process, crashes and restarts included, the
\* platform delivers the completion message of a stored entry at most once.
C38_NotifiedOnceAcrossRestart ==
  \A k \in DOMAIN delivered : delivered[k] <= 1

\* C37: after a group was torn down (its thread archived, its record deleted)
\* nobody is a member of the thread and nobody is added to it any more, as
\* long as no call to the platform failed.
C37_TornDownStaysEmpty ==
  /\ [](\A i \in 1..Len(threads) :
          (~perr /\ threads[i].archived /\ threads[i].key \notin DOMAIN groups)
          => threads[i].members = {})
  /\ [][\A i \in 1..Len(threads) :
          (threads[i].archived /\ threads[i].key \notin DOMAIN groups)
          => threads'[i].members \subseteq threads[i].members]_vars

\* The groups of the travel requests for the boundary at second 60.
LiveKeys == {<<g, 60, 60 + d>> : g \in Guilds, d \in Durations}
\* C36: a group whose thread_id is "pending" gets its thread or is back at
\* None in the end, unless the group is deleted while the task that claimed
\* the creation is still at work.
C36_PendingEnds ==
  \A k \in LiveKeys :
    []((k \in DOMAIN groups /\ groups[k].thread = ThreadPending)
       => <>(\/ k \in DOMAIN groups /\ groups[k].thread # ThreadPending
             \/ /\ k \notin DOMAIN groups
                /\ \E u \in 1..Len(ent) : KeyOf(ent[u]) = k /\ wpc[u] = "create"))

\* C35: a thread the platform created is archived in the end, once the group
\* it was created for is empty or deleted.
C35_CreatedSpaceArchived ==
  \A i \in 1..MaxEntries :
    []((/\ i <= Len(threads)
        /\ \/ threads[i].key \notin DOMAIN groups
           \/ groups[threads[i].key].entries = {})
       => <>(i <= Len(threads) /\ threads[i].archived))

\* C34: with an interval of 1..30 minutes, start_ts = now + wait_seconds is
\* at a time of day that is a multiple of the interval, whatever the time of
\* day of the request.
C34_StartOnBoundary ==
  (ev.op = "boundary" /\ ev.arg \in 1..MAX_INTERVAL_MINUTES)
  => ((now + ev.out) % 86400) % (ev.arg * 60) = 0

\* C33: no task holds self._lock while it is suspended: whatever the timer
\* tasks, the wait tasks, the cleanups and the recovery are waiting for (the
\* end of a sleep, the answer of the platform), the lock is free.
C33_LockFreeAtEveryAwait ==
  lock = NoHolder
\* The completion of one entry is being sent, and meanwhile another entry has
\* been cancelled: the cancel went through the lock.
C33_Witness ==
  \E u, v \in 1..Len(ent) :
    /\ u # v /\ tpc[u] = "send" /\ lock = NoHolder
    /\ ev.op = "cancel" /\ ev.out = "cancelled" /\ ev.uid = v

\* C32: a group without a thread in which two teams have an entry gets its
\* thread in the end, unless one of the teams leaves the group before the
\* start, a call to the platform fails or the process dies; a group that
\* _load_existing_countdowns put back after a restart is such a group again.
C32_SpaceCreatedInTheEnd ==
  \A k \in LiveKeys :
    []((/\ Alive /\ k \in DOMAIN groups /\ groups[k].thread = ThreadNone
        /\ Cardinality(Parties(groups, k)) >= 2)
       => <>(\/ k \in DOMAIN groups /\ groups[k].thread > 0
             \/ perr
             \/ ~Alive
             \/ /\ now < k[2]
                /\ (k \notin DOMAIN groups \/ Cardinality(Parties(groups, k)) < 2)))

\* The entry with uid u is in the registry.
InRegistry(u) ==
  u <= Len(ent) /\ ent[u].id \in DOMAIN active /\ active[ent[u].id].uid = u
\* C31: an entry that is in the registry when its end_ts has come leaves the
\* registry in the end: no entry stays active for ever after its end.
C31_EntryLeavesRegistry ==
  \A u \in UIDs :
    []((InRegistry(u) /\ now >= ent[u].end) => <>(~InRegistry(u)))
====
